---------------------------- MODULE Spec2Model ----------------------------
(***************************************************************************)
(* A model of AudiService (custom_components/audiconnect/audi_services.py): *)
(* the token records of one session, the proactive refresh chain            *)
(* refresh_token_if_necessary, the confirmation polling loop                *)
(* check_request_succeeded, the home-region getters with their per-VIN      *)
(* cache, and login_request.  Every await of the source is a point where    *)
(* the coroutine is suspended; the code between two awaits is one action.   *)
(***************************************************************************)
EXTENDS Naturals, Integers, Sequences, FiniteSets, TLC

(***************************************************************************)
(* Program constants.                                                      *)
(***************************************************************************)
MAX_RESPONSE_ATTEMPTS == 10
REQUEST_STATUS_SLEEP == 10
REFRESH_MARGIN == 300

SUCCEEDED == "succeeded"
FAILED == "failed"
REQUEST_SUCCESSFUL == "request_successful"
REQUEST_FAILED == "request_failed"

(***************************************************************************)
(* Bounds of the model.                                                    *)
(***************************************************************************)
\* token values a backend can issue are 1..MaxTok
MaxTok == 2
\* elapsed_sec arguments are 0..MaxElapsed
MaxElapsed == 3
\* base URIs of the homeRegion answer have at most MaxUriLen pieces
MaxUriLen == 2
\* a session draws the random values of at most MaxLogins logins
MaxLogins == 2

Tok == 1..MaxTok
ElapsedVals == 0..MaxElapsed
\* expires_in values of the mbbOAuth record: the margin plus a few seconds,
\* so that both sides of the guard and its boundary are within ElapsedVals
ExpiresInVals == {REFRESH_MARGIN + 1, REFRESH_MARGIN + 2}

\* the coroutines that may call into the session
Coroutines == {"c1", "c2"}

(***************************************************************************)
(* Values.  None is Python's None, Absent a key missing from a JSON object, *)
(* NoAttr an attribute that was never assigned (vwToken and audiToken are   *)
(* not set by __init__).                                                    *)
(***************************************************************************)
None == [kind |-> "None"]
NoAttr == [kind |-> "NoAttr"]

\* the value of a JSON key: the empty set when the key is absent, {v} when it
\* holds v
Absent == {}
Has(v) == {v}
Val(field) == CHOOSE v \in field : TRUE
Opt(S) == {Absent} \cup {Has(v) : v \in S}
Some(S) == {Has(v) : v \in S}

\* what a request can come back with besides a JSON object: the transport
\* raises, or the body is not JSON
Raise == [kind |-> "raise"]
Garbage == [kind |-> "garbage"]

\* JSON objects returned by the three token endpoints.  A backend numbers
\* the token objects it issues: the fields of issue k, when present, hold k.
Issue(k, fields) == {[access_token |-> a, refresh_token |-> r] :
                        a \in fields[1] \cap {Absent, Has(k)},
                        r \in fields[2] \cap {Absent, Has(k)}}

\* json.loads of the body "null": a JSON value that is not an object
JsonNull == None

\* the legacy token: refresh_token is optional (line 988)
VwJson == UNION {Issue(k, <<Some(Tok), Opt(Tok)>>) : k \in Tok}
\* the identity token: access_token is read at line 1030, refresh_token
\* through .get at line 1003
BearerJson == UNION {Issue(k, <<Opt(Tok), Opt(Tok)>>) : k \in Tok}
\* the authorization-server token
AzsJson == [access_token : Some(Tok)]

VARIABLES
    mbboauthToken,   \* self.mbboauthToken
    vwToken,         \* self.vwToken (the legacy token)
    bearer,          \* self._bearer_token_json (the identity token)
    audiToken,       \* self.audiToken (the authorization-server token)
    apiToken,        \* the token selected on the shared transport (use_token)
    sched,           \* the coroutines the caller runs
    rf,              \* per coroutine: its refresh_token_if_necessary frame
    hist,            \* per coroutine: the history of its current refresh call
    pl,              \* per coroutine: its check_request_succeeded frame
    homeRegion,      \* self._homeRegion: per VIN, the cached home region
    homeRegionSetter,\* self._homeRegionSetter: per VIN, the cached setter region
    hr,              \* per coroutine: its _get_home_region(_setter) frame
    hrRequests,      \* per VIN: the homeRegion requests sent so far
    hrResolved,      \* per VIN: the answer that completed its resolution
    lg,              \* per coroutine: its login_request frame
    market,          \* _language, _client_id, _authorizationServerBaseURLLive,
                     \* mbbOAuthBaseURL and _tokenEndpoint
    xclientId,       \* self.xclientId
    country,         \* self._country
    spin,            \* self._spin
    apiLevel,        \* self._api_level
    cm,              \* per coroutine: the frame of its vehicle query or command
    polled,          \* the status literals of the confirmations started so far
    issued           \* the random values login_request has drawn so far

homeVars == <<homeRegion, homeRegionSetter, hr, hrRequests, hrResolved>>

loginVars == <<lg, market, xclientId>>

cmdVars == <<country, spin, apiLevel, cm, polled, issued>>

vars == <<mbboauthToken, vwToken, bearer, audiToken, apiToken, sched, rf, hist, pl,
          homeVars, loginVars, cmdVars>>

\* the token records of the session
Session ==
    [vw |-> vwToken, bearer |-> bearer, audi |-> audiToken, mbb |-> mbboauthToken]

\* the coroutine is in none of the calls of the service
Idle(t) ==
    /\ rf[t].pc = "idle"
    /\ pl[t].pc = "idle"
    /\ hr[t].pc = "idle"
    /\ lg[t].pc = "idle"
    /\ cm[t].pc = "idle"

(***************************************************************************)
(* refresh_token_if_necessary                                              *)
(***************************************************************************)
RefreshSteps == <<"mbb", "idk", "azs">>

\* a frame: where the coroutine is, its argument, the request it awaits, its
\* result (ret when pc = "done") and the exception leaving the call, if any
IdleFrame ==
    [pc |-> "idle", elapsed |-> 0, req |-> Absent, ret |-> FALSE, exc |-> Absent]

\* the history of a call: the session at its start, the requests it sent, the
\* JSON objects it received, and the step and cause of its failure
NoFailure == [step |-> 0, cause |-> "none"]
NoHist == [pre |-> None, sent |-> <<>>, resps |-> <<>>, failure |-> NoFailure]

\* the history is kept for a coroutine that runs alone
Recorded == Cardinality(sched) = 1

Record(t, h) == hist' = IF Recorded THEN [hist EXCEPT ![t] = h] ELSE hist

\* the three early returns on the stored mbbOAuth record
NoRefreshToken(tok) ==
    \/ tok = None
    \/ tok.refresh_token = Absent
    \/ tok.expires_in = Absent

RefreshNotNeeded_Mut(elapsed, expires_in) ==
    (elapsed + REFRESH_MARGIN) <= Val(expires_in)

\* (elapsed_sec + 5 * 60) < self.mbboauthToken["expires_in"]
RefreshNotNeeded(elapsed, expires_in) ==
    (elapsed + REFRESH_MARGIN) < Val(expires_in)

RefreshDue(elapsed, tok) ==
    /\ ~NoRefreshToken(tok)
    /\ ~RefreshNotNeeded(elapsed, tok.expires_in)

\* the request raises, or json.loads raises on its body
ResponseFails(r) == r \in {Raise, Garbage}

FailureCause(r) == IF r = Raise THEN "raise" ELSE "garbage"

RefreshFail_Mut(t, step, cause) ==
    /\ rf' = [rf EXCEPT ![t].pc = "done", ![t].req = Absent,
                 ![t].exc = Has([cls |-> "Exception", msg |-> cause])]
    /\ Record(t, [hist[t] EXCEPT !.failure = [step |-> step, cause |-> cause]])

\* except Exception: log the error and return False
RefreshFail(t, step, cause) ==
    /\ rf' = [rf EXCEPT ![t].pc = "done", ![t].req = Absent, ![t].ret = FALSE]
    /\ Record(t, [hist[t] EXCEPT !.failure = [step |-> step, cause |-> cause]])

\* the request of a step: its endpoint, its grant_type, whether it carries the
\* X-QMAuth request signature, and the token it presents
RefreshRequest(kind, token) ==
    [kind |-> kind,
     grant |-> IF kind = "azs" THEN "id_token" ELSE "refresh_token",
     signed |-> kind = "idk",
     token |-> token]

\* a request is sent and the coroutine awaits its response
RefreshSend(t, nextpc, kind, token, rs) ==
    LET rq == RefreshRequest(kind, token)
    IN /\ rf' = [rf EXCEPT ![t].pc = nextpc, ![t].req = Has(rq)]
       /\ Record(t, [hist[t] EXCEPT !.sent = Append(@, rq), !.resps = rs])

\* the call up to its first await: the guard, then the mbbOAuth request
RefreshCall(t, e) ==
    /\ Idle(t)
    /\ IF ~RefreshDue(e, mbboauthToken)
       THEN /\ rf' = [rf EXCEPT ![t] = [IdleFrame EXCEPT !.pc = "done",
                                           !.elapsed = e, !.ret = FALSE]]
            /\ Record(t, [NoHist EXCEPT !.pre = Session])
       ELSE LET rq == RefreshRequest("mbb", mbboauthToken.refresh_token)
            IN /\ rf' = [rf EXCEPT ![t] = [IdleFrame EXCEPT !.pc = "await_mbb",
                                              !.elapsed = e, !.req = Has(rq)]]
               /\ Record(t, [NoHist EXCEPT !.pre = Session, !.sent = <<rq>>])
    /\ UNCHANGED <<mbboauthToken, vwToken, bearer, audiToken, apiToken, sched, pl, homeVars, loginVars,
                   cmdVars>>

StoreRefreshToken_Mut(mbb, r) == [mbb EXCEPT !.refresh_token = r.refresh_token]

\* if "refresh_token" in self.vwToken:
\*     self.mbboauthToken["refresh_token"] = self.vwToken["refresh_token"]
StoreRefreshToken(mbb, r) ==
    IF r.refresh_token # Absent
    THEN [mbb EXCEPT !.refresh_token = r.refresh_token]
    ELSE mbb

RefreshMbbResponse_Mut(t, r) ==
    /\ rf[t].pc = "await_mbb"
    /\ r \in {Raise, Garbage, JsonNull} \cup VwJson
    /\ bearer # None
    /\ IF ResponseFails(r) \/ r = JsonNull
       THEN /\ RefreshSend(t, "await_idk", "idk", bearer.refresh_token, hist[t].resps)
            /\ UNCHANGED <<mbboauthToken, vwToken>>
       ELSE /\ vwToken' = r
            /\ mbboauthToken' = StoreRefreshToken(mbboauthToken, r)
            /\ RefreshSend(t, "await_idk", "idk", bearer.refresh_token,
                           Append(hist[t].resps, r))
    /\ UNCHANGED <<bearer, audiToken, apiToken, sched, pl, homeVars, loginVars, cmdVars>>

\* the mbbOAuth refresh response, up to the identity request
RefreshMbbResponse(t, r) ==
    /\ rf[t].pc = "await_mbb"
    /\ r \in {Raise, Garbage, JsonNull} \cup VwJson
    /\ IF ResponseFails(r)
       THEN /\ RefreshFail(t, 1, FailureCause(r))
            /\ UNCHANGED <<mbboauthToken, vwToken>>
       ELSE /\ vwToken' = r
            /\ IF r = JsonNull
               THEN \* "refresh_token" in None raises TypeError
                    /\ RefreshFail(t, 1, "type")
                    /\ UNCHANGED mbboauthToken
               ELSE /\ mbboauthToken' = StoreRefreshToken(mbboauthToken, r)
                    /\ IF bearer = None
                       THEN \* self._bearer_token_json.get raises
                            /\ rf' = [rf EXCEPT ![t].pc = "done", ![t].req = Absent,
                                         ![t].ret = FALSE]
                            /\ Record(t, [hist[t] EXCEPT
                                            !.resps = Append(@, r),
                                            !.failure = [step |-> 2,
                                                         cause |-> "attribute"]])
                       ELSE RefreshSend(t, "await_idk", "idk", bearer.refresh_token,
                                        Append(hist[t].resps, r))
    /\ UNCHANGED <<bearer, audiToken, apiToken, sched, pl, homeVars, loginVars, cmdVars>>

AzsRequestToken_Mut(old, new) == old.access_token

\* asz_req_data["token"]: read from self._bearer_token_json after the identity
\* response was stored in it
AzsRequestToken(old, new) == new.access_token

\* the identity refresh response, up to the authorization-server request
RefreshIdkResponse(t, r) ==
    /\ rf[t].pc = "await_idk"
    /\ r \in {Raise, Garbage, JsonNull} \cup BearerJson
    /\ IF ResponseFails(r)
       THEN /\ RefreshFail(t, 2, FailureCause(r))
            /\ UNCHANGED bearer
       ELSE /\ bearer' = r
            /\ IF r = JsonNull \/ r.access_token = Absent
               THEN \* self._bearer_token_json["access_token"] raises
                    /\ rf' = [rf EXCEPT ![t].pc = "done", ![t].req = Absent,
                                 ![t].ret = FALSE]
                    /\ Record(t, [hist[t] EXCEPT
                                    !.resps = Append(@, r),
                                    !.failure =
                                       [step |-> 3,
                                        cause |-> IF r = JsonNull THEN "type"
                                                  ELSE "key"]])
               ELSE RefreshSend(t, "await_azs", "azs", AzsRequestToken(bearer, r),
                                Append(hist[t].resps, r))
    /\ UNCHANGED <<mbboauthToken, vwToken, audiToken, apiToken, sched, pl, homeVars, loginVars,
                   cmdVars>>

RefreshAzsResponse_Mut(t, r) ==
    /\ rf[t].pc = "await_azs"
    /\ r \in {Raise, Garbage, JsonNull} \cup AzsJson
    /\ IF ResponseFails(r)
       THEN /\ RefreshFail(t, 3, FailureCause(r))
            /\ audiToken' = None
       ELSE /\ audiToken' = r
            /\ rf' = [rf EXCEPT ![t].pc = "done", ![t].req = Absent, ![t].ret = TRUE]
            /\ Record(t, [hist[t] EXCEPT !.resps = Append(@, r)])
    /\ UNCHANGED <<mbboauthToken, vwToken, bearer, apiToken, sched, pl, homeVars, loginVars,
                   cmdVars>>

\* the authorization-server response, up to return True
RefreshAzsResponse(t, r) ==
    /\ rf[t].pc = "await_azs"
    /\ r \in {Raise, Garbage, JsonNull} \cup AzsJson
    /\ IF ResponseFails(r)
       THEN /\ RefreshFail(t, 3, FailureCause(r))
            /\ UNCHANGED audiToken
       ELSE /\ audiToken' = r
            /\ rf' = [rf EXCEPT ![t].pc = "done", ![t].req = Absent, ![t].ret = TRUE]
            /\ Record(t, [hist[t] EXCEPT !.resps = Append(@, r)])
    /\ UNCHANGED <<mbboauthToken, vwToken, bearer, apiToken, sched, pl, homeVars, loginVars,
                   cmdVars>>

\* the caller takes the result; the frame is gone
RefreshReturn(t) ==
    /\ rf[t].pc = "done"
    /\ rf' = [rf EXCEPT ![t] = IdleFrame]
    /\ Record(t, NoHist)
    /\ UNCHANGED <<mbboauthToken, vwToken, bearer, audiToken, apiToken, sched, pl, homeVars, loginVars,
                   cmdVars>>

(***************************************************************************)
(* check_request_succeeded                                                 *)
(***************************************************************************)
\* the status a GET yields through get_attr(res, path): Absent when the path
\* is not in the response, else a literal of the backend
StatusLiterals == {"queued", SUCCEEDED, FAILED, REQUEST_SUCCESSFUL, REQUEST_FAILED}
Statuses == Opt(StatusLiterals)

\* the literals the status endpoint of a command reports: a pending one, the
\* two of its own family and the success literal of the other family
Vocabulary(successCode) ==
    StatusLiterals \ {IF successCode = SUCCEEDED THEN REQUEST_FAILED ELSE FAILED}

\* the (successCode, failedCode) pairs: those of the callers, and a call
\* without failure literal (failedCode None)
PollCodes ==
    {<<REQUEST_SUCCESSFUL, Has(REQUEST_FAILED)>>, <<SUCCEEDED, Has(FAILED)>>,
     <<SUCCEEDED, Absent>>}

IdlePoll ==
    [pc |-> "idle", i |-> 0, successCode |-> SUCCEEDED, failedCode |-> Absent,
     req |-> Absent, gets |-> 0, slept |-> 0, seen |-> <<>>, used |-> <<>>,
     exc |-> Absent]

\* Exception("Cannot {action}, return code '{code}'")
FailedError(status) ==
    [cls |-> "Exception", msg |-> "return code", code |-> status]

TimeoutError_Mut == FailedError(Absent)

\* Exception("Cannot {action}, operation timed out")
TimeoutError == [cls |-> "Exception", msg |-> "operation timed out"]

\* what the transport raises out of self._api.get
TransportError == [cls |-> "ClientError", msg |-> "request failed"]

StatusFailed_Mut(status, failedCode) ==
    failedCode # Absent /\ status = failedCode

\* status is None or (failedCode is not None and status == failedCode)
StatusFailed(status, failedCode) ==
    \/ status = Absent
    \/ failedCode # Absent /\ status = failedCode

StatusSucceeded_Mut(status, successCode) == status = Has(SUCCEEDED)

\* status == successCode
StatusSucceeded(status, successCode) == status = Has(successCode)

MoreAttempts_Mut(i) == i + 1 <= MAX_RESPONSE_ATTEMPTS

\* for _ in range(MAX_RESPONSE_ATTEMPTS): another iteration follows pass i
MoreAttempts(i) == i + 1 < MAX_RESPONSE_ATTEMPTS

\* check_request_succeeded is entered: up to the first await asyncio.sleep
PollEnter(t, sc, fc) ==
    pl' = [pl EXCEPT ![t] = [IdlePoll EXCEPT !.pc = "sleeping",
                                !.successCode = sc, !.failedCode = fc]]

\* the call up to the first await asyncio.sleep
PollStart(t, sc, fc) ==
    /\ Idle(t)
    /\ PollEnter(t, sc, fc)
    /\ UNCHANGED <<mbboauthToken, vwToken, bearer, audiToken, apiToken, sched, rf, hist, homeVars, loginVars,
                   cmdVars>>

PollWake_Mut(t) ==
    /\ pl[t].pc = "sleeping"
    /\ LET tok == IF pl[t].gets = 0 THEN vwToken ELSE pl[t].used[1]
       IN /\ apiToken' = tok
          /\ pl' = [pl EXCEPT ![t].pc = "await_get",
                       ![t].slept = @ + REQUEST_STATUS_SLEEP,
                       ![t].gets = @ + 1,
                       ![t].used = Append(@, tok),
                       ![t].req = Has([kind |-> "status", token |-> tok])]
    /\ UNCHANGED <<mbboauthToken, vwToken, bearer, audiToken, sched, rf, hist, homeVars, loginVars,
                   cmdVars>>

\* the sleep is over: use_token(self.vwToken), then the GET is sent; used
\* keeps the tokens of the attempts
PollWake(t) ==
    /\ pl[t].pc = "sleeping"
    /\ apiToken' = vwToken
    /\ pl' = [pl EXCEPT ![t].pc = "await_get",
                 ![t].slept = @ + REQUEST_STATUS_SLEEP,
                 ![t].gets = @ + 1,
                 ![t].used = Append(@, vwToken),
                 ![t].req = Has([kind |-> "status", token |-> vwToken])]
    /\ UNCHANGED <<mbboauthToken, vwToken, bearer, audiToken, sched, rf, hist, homeVars, loginVars,
                   cmdVars>>

\* the GET raises: the exception leaves the call
PollGetRaises(t) ==
    /\ pl[t].pc = "await_get"
    /\ pl' = [pl EXCEPT ![t].pc = "done", ![t].req = Absent,
                 ![t].exc = Has(TransportError)]
    /\ UNCHANGED <<mbboauthToken, vwToken, bearer, audiToken, apiToken, sched, rf, hist, homeVars, loginVars,
                   cmdVars>>

\* the GET returns: the status is extracted and decides the attempt
PollResponse(t, status) ==
    /\ pl[t].pc = "await_get"
    /\ status \in Opt(Vocabulary(pl[t].successCode))
    /\ LET f == [pl[t] EXCEPT !.req = Absent, !.seen = Append(@, status)]
       IN pl' = [pl EXCEPT ![t] =
            IF StatusFailed(status, f.failedCode)
            THEN [f EXCEPT !.pc = "done", !.exc = Has(FailedError(status))]
            ELSE IF StatusSucceeded(status, f.successCode)
            THEN [f EXCEPT !.pc = "done"]
            ELSE IF MoreAttempts(f.i)
            THEN [f EXCEPT !.pc = "sleeping", !.i = @ + 1]
            ELSE [f EXCEPT !.pc = "done", !.exc = Has(TimeoutError)]]
    /\ UNCHANGED <<mbboauthToken, vwToken, bearer, audiToken, apiToken, sched, rf, hist, homeVars, loginVars,
                   cmdVars>>

\* the caller takes the result or the exception; the frame is gone
PollReturn(t) ==
    /\ pl[t].pc = "done"
    /\ cm[t].pc = "idle"
    /\ pl' = [pl EXCEPT ![t] = IdlePoll]
    /\ UNCHANGED <<mbboauthToken, vwToken, bearer, audiToken, apiToken, sched, rf, hist, homeVars, loginVars,
                   cmdVars>>

(***************************************************************************)
(* _fill_home_region, _get_home_region, _get_home_region_setter            *)
(*                                                                         *)
(* A URI is the sequence of its pieces; "/api" and "mal-" are the          *)
(* substrings the code searches for, the other pieces contain neither.     *)
(***************************************************************************)
Vins == {"v1", "v2"}

UriPieces == {"mal-", "host", "/api"}

\* a string value
Str(u) == [str |-> u]

\* the URIs of at most MaxUriLen pieces
Uris == {Str(u) : u \in UNION {[1..n -> UriPieces] : n \in 0..MaxUriLen}}

\* "https://mal-1a.prd.ece.vwg-connect.com/api"
DefaultUri == Str(<<"https://", "mal-", "1a.prd.ece.vwg-connect.com", "/api">>)
\* "https://mal-1a.prd.ece.vwg-connect.com"
DefaultSetter == Str(<<"https://", "mal-", "1a.prd.ece.vwg-connect.com">>)
\* "https://msg.volkswagen.de"
DefaultHome == Str(<<"https://", "msg.volkswagen.de">>)

\* a content that is JSON but not a string
NotAString == [kind |-> "number"]

\* the answers of the homeRegion query: the GET raises, returns None, or
\* returns an object holding homeRegion.baseUri.content down to some depth
HomeJson ==
    {[homeRegion |-> Absent],
     [homeRegion |-> Has([baseUri |-> Absent])],
     [homeRegion |-> Has([baseUri |-> Has([content |-> Absent])])]}
    \cup {[homeRegion |-> Has([baseUri |-> Has([content |-> Has(c)])])] :
             c \in Uris \cup {DefaultUri, NotAString}}

HomeResponses == {Raise, None} \cup HomeJson

\* self.vwToken was never assigned: use_token(self.vwToken) raises
NoToken == [kind |-> "NoToken"]

\* the four "is not None" tests of _fill_home_region
HasContent(res) ==
    /\ res \in HomeJson
    /\ res.homeRegion # Absent
    /\ Val(res.homeRegion).baseUri # Absent
    /\ Val(Val(res.homeRegion).baseUri).content # Absent

\* res["homeRegion"]["baseUri"]["content"]
Content(res) == Val(Val(Val(res.homeRegion).baseUri).content)

\* the positions of piece in the string s
Positions(s, piece) == {i \in 1..Len(s.str) : s.str[i] = piece}

Min(S) == CHOOSE i \in S : \A j \in S : i <= j

\* uri.split("/api")[0]: the URI up to its first "/api", all of it without one
SplitApi(s) ==
    IF Positions(s, "/api") = {} THEN s
    ELSE Str(SubSeq(s.str, 1, Min(Positions(s, "/api")) - 1))

ReplaceMal_Mut(s) ==
    IF Positions(s, "mal-") = {} THEN s
    ELSE Str([s.str EXCEPT ![Min(Positions(s, "mal-"))] = "fal-"])

\* .replace("mal-", "fal-"): every occurrence is replaced
ReplaceMal(s) ==
    Str([i \in 1..Len(s.str) |-> IF s.str[i] = "mal-" THEN "fal-" ELSE s.str[i]])

Overrides_Mut(res) ==
    /\ HasContent(res)
    /\ Content(res) # NotAString

\* the query reports a string base URI other than the default one (on a
\* content that is not a string, uri.split raises and the defaults stay)
Overrides(res) ==
    /\ HasContent(res)
    /\ Content(res) # NotAString
    /\ Content(res) # DefaultUri

Cached_Mut(cache, vin) == FALSE

\* self._homeRegion.get(vin) is not None
Cached(cache, vin) == cache[vin] # None

IdleHome ==
    [pc |-> "idle", vin |-> "v1", get |-> "home", req |-> Absent, ret |-> Absent,
     exc |-> Absent, sent |-> 0, resolvedAtCall |-> FALSE]

\* _get_home_region (get = "home") or _get_home_region_setter (get =
\* "setter") is entered: up to its return or, through _fill_home_region, up
\* to the await of the query
HomeEnter(t, vin, get) ==
    /\ LET cache == IF get = "home" THEN homeRegion ELSE homeRegionSetter
           frame == [IdleHome EXCEPT !.vin = vin, !.get = get,
                                     !.resolvedAtCall = hrResolved[vin] # Absent]
       IN IF Cached(cache, vin)
          THEN /\ hr' = [hr EXCEPT ![t] = [frame EXCEPT !.pc = "done",
                                                        !.ret = Has(cache[vin])]]
               /\ UNCHANGED <<homeRegion, homeRegionSetter, hrRequests, hrResolved,
                              apiToken>>
          ELSE /\ homeRegion' = [homeRegion EXCEPT ![vin] = DefaultHome]
               /\ homeRegionSetter' = [homeRegionSetter EXCEPT ![vin] = DefaultSetter]
               /\ IF vwToken = NoAttr
                  THEN /\ hr' = [hr EXCEPT ![t] =
                                   [frame EXCEPT
                                      !.pc = "done",
                                      !.ret = Has(IF get = "home" THEN DefaultHome
                                                  ELSE DefaultSetter)]]
                       /\ hrResolved' = [hrResolved EXCEPT ![vin] = Has(NoToken)]
                       /\ UNCHANGED <<hrRequests, apiToken>>
                  ELSE /\ apiToken' = vwToken
                       /\ hr' = [hr EXCEPT ![t] =
                                   [frame EXCEPT
                                      !.pc = "await_get", !.sent = 1,
                                      !.req = Has([kind |-> "homeRegion",
                                                   vin |-> vin,
                                                   token |-> vwToken])]]
                       /\ hrRequests' = [hrRequests EXCEPT ![vin] = @ + 1]
                       /\ UNCHANGED hrResolved

\* a getter called by the caller of the service
HomeCall(t, vin, get) ==
    /\ Idle(t)
    /\ HomeEnter(t, vin, get)
    /\ UNCHANGED <<mbboauthToken, vwToken, bearer, audiToken, sched, rf, hist, pl, loginVars,
                   cmdVars>>

\* the answer of the query, up to the return of the getter
HomeResponse(t, res) ==
    /\ hr[t].pc = "await_get"
    /\ res \in HomeResponses
    /\ LET vin == hr[t].vin
           setter == IF Overrides(res) THEN SplitApi(Content(res))
                     ELSE homeRegionSetter[vin]
           home == IF Overrides(res) THEN ReplaceMal(setter) ELSE homeRegion[vin]
       IN /\ homeRegionSetter' = [homeRegionSetter EXCEPT ![vin] = setter]
          /\ homeRegion' = [homeRegion EXCEPT ![vin] = home]
          /\ hr' = [hr EXCEPT ![t].pc = "done", ![t].req = Absent,
                       ![t].ret = Has(IF hr[t].get = "home" THEN home ELSE setter)]
          /\ hrResolved' = [hrResolved EXCEPT ![vin] = Has(res)]
    /\ UNCHANGED <<mbboauthToken, vwToken, bearer, audiToken, apiToken, sched, rf,
                   hist, pl, hrRequests, loginVars, cmdVars>>

\* the caller takes the region; the frame is gone
HomeReturn(t) ==
    /\ hr[t].pc = "done"
    /\ cm[t].pc = "idle"
    /\ hr' = [hr EXCEPT ![t] = IdleHome]
    /\ UNCHANGED <<mbboauthToken, vwToken, bearer, audiToken, apiToken, sched, rf,
                   hist, pl, homeRegion, homeRegionSetter, hrRequests, hrResolved, loginVars,
                   cmdVars>>

\* the token values issued at login
LoginTok == {CHOOSE k \in Tok : \A j \in Tok : k <= j}

(***************************************************************************)
(* login_request                                                           *)
(*                                                                         *)
(* The call awaits fourteen requests.  A URL is its origin (scheme and     *)
(* host) and the segments of its path; a page is its form tag and whether  *)
(* it embeds an hmac; a redirect response is its Location header.          *)
(***************************************************************************)
LoginSteps_Mut ==
    <<"marketcfg", "markets", "openidcfg", "loginpage", "identifier", "password",
      "fwd1", "fwd2", "codeauth", "idtoken", "azstoken", "register", "mbbauth",
      "mbbrefresh">>

\* the requests of login_request in the order of its awaits
LoginSteps ==
    <<"markets", "marketcfg", "openidcfg", "loginpage", "identifier", "password",
      "fwd1", "fwd2", "codeauth", "idtoken", "azstoken", "register", "mbbauth",
      "mbbrefresh">>

\* rsp.cookies: the cookies the response to the request named kind sets:
\* none, or one named after the request
SetCookies(kind) == {{}, {kind}}

\* self._country and its region
Country == country
Region == IF Country = "US" THEN "na" ELSE "emea"

Url(origin, path) == [origin |-> origin, path |-> path]

MarketsUrl == Url("content.app.my.audi.com", <<"configurations", "markets">>)
MarketCfgUrl(language) ==
    Url("content.app.my.audi.com", <<"configurations", "market", Country, language>>)
OpenIdCfgUrl == Url(Region, <<"login", "v1", "idk", "openid-configuration">>)
DefaultAuthEndpoint == Url("identity.vwgroup.io", <<"oidc", "v1", "authorize">>)
ConfigAuthEndpoint == Url("idp", <<"authorize">>)

\* the session configuration before any login (__init__)
FreshMarket ==
    [language |-> "None", client_id |-> "", azsBase |-> "", mbbBase |-> "None",
     tokenEndpoint |-> ""]

\* the session configuration a login leaves when the documents carry no key
DefaultMarket ==
    [language |-> "de", client_id |-> "default", azsBase |-> "default",
     mbbBase |-> "default", tokenEndpoint |-> "default"]

\* the markets document: the country is listed or not, with or without its
\* defaultLanguage
MarketsJson ==
    {[listed |-> FALSE, language |-> Absent],
     [listed |-> TRUE, language |-> Absent],
     [listed |-> TRUE, language |-> Has("de")]}

MarketKeys ==
    {"idkClientIDAndroidLive", "authorizationServerBaseURLLive",
     "myAudiAuthorizationServerProxyServiceURLProduction", "mbbOAuthBaseURLLive"}

\* the market configuration document: without a key, with one, with all
MarketCfgJson ==
    {[keys |-> K] : K \in {{}, MarketKeys} \cup {{k} : k \in MarketKeys}}

OpenIdKeys == {"authorization_endpoint", "token_endpoint"}

OpenIdCfgJson == {[keys |-> K] : K \in SUBSET OpenIdKeys}

\* the form tag of a page: none, one without action, or one whose action
\* starts with "http", with "/", or with neither
NoForm == [kind |-> "NoForm"]
Actions ==
    {[start |-> "http", origin |-> "login", path |-> <<"signin", "identifier">>],
     [start |-> "/", origin |-> "", path |-> <<"signin", "identifier">>],
     [start |-> "other", origin |-> "", path |-> <<"identifier">>]}
Forms == {NoForm} \cup [action : Opt(Actions)]

\* the login page, and the pages that answer the identifier POST (a page
\* that embeds an hmac builds its form in a script)
\* (hidden: the names of the hidden inputs of the page; those of the login
\* page and those of the page answering the identifier are told apart)
LoginPages ==
    [form : Forms, hmac : {FALSE}, hidden : {{"hidden"}},
     cookies : SetCookies("loginpage")]
IdentifierPages ==
    [form : Forms, hmac : {FALSE}, hidden : {{"hidden2"}},
     cookies : SetCookies("identifier")]
    \cup [form : {NoForm}, hmac : {TRUE}, hidden : {{}, {"hidden2"}},
          cookies : SetCookies("identifier")]

\* the Location of the redirect answering the request of step k
Loc(k) == [url |-> k]
Redirects(k) == [location : Opt({Loc(k)}), cookies : SetCookies(LoginSteps[k])]

\* the Location of the last redirect: eleven characters (the custom scheme
\* prefix "myaudi:///?" or others) and a query with or without a code
CustomScheme == "myaudi:///?"
Codes == {"code1", "code2"}
CodeLocations ==
    [prefix : {CustomScheme}, code : Opt(Codes)]
    \cup [prefix : {"https://a/?"}, code : {Has("code1")}]
CodeRedirects == [location : Opt(CodeLocations)]

\* the identity token of a login: complete, or lacking one of its fields
IdTokenJson ==
    {j \in [access_token : Opt(LoginTok), refresh_token : Opt(LoginTok),
            id_token : Opt(LoginTok)] :
        Cardinality({f \in DOMAIN j : j[f] = Absent}) <= 1}

\* the answer to the client registration: its JSON body and its cookies
RegisterJson == [client_id : Opt({"cid"}), cookies : SetCookies("register")]

MbbAuthJson ==
    [access_token : Some(LoginTok), refresh_token : Opt(LoginTok),
     expires_in : Opt({REFRESH_MARGIN + 1})]

LoginVwJson == [access_token : Some(LoginTok), refresh_token : Opt(LoginTok)]

\* the answers to the request of a step
LoginResponses(kind) ==
    CASE kind = "markets" -> {Raise} \cup MarketsJson
      [] kind = "marketcfg" -> {Raise} \cup MarketCfgJson
      [] kind = "openidcfg" -> {Raise} \cup OpenIdCfgJson
      [] kind = "loginpage" -> {Raise} \cup LoginPages
      [] kind = "identifier" -> {Raise} \cup IdentifierPages
      [] kind = "password" -> {Raise} \cup Redirects(6)
      [] kind = "fwd1" -> {Raise} \cup Redirects(7)
      [] kind = "fwd2" -> {Raise} \cup Redirects(8)
      [] kind = "codeauth" -> {Raise} \cup CodeRedirects
      [] kind = "idtoken" -> {Raise, Garbage, JsonNull} \cup IdTokenJson
      [] kind = "azstoken" -> {Raise, Garbage, JsonNull} \cup [access_token : Some(LoginTok)]
      [] kind = "register" -> {Raise, Garbage, JsonNull} \cup RegisterJson
      [] kind = "mbbauth" -> {Raise, Garbage, JsonNull} \cup MbbAuthJson
      [] kind = "mbbrefresh" -> {Raise, Garbage, JsonNull} \cup LoginVwJson

Method(kind) ==
    IF kind \in {"identifier", "password", "idtoken", "azstoken", "register",
                 "mbbauth", "mbbrefresh"}
    THEN "POST" ELSE "GET"

FollowRedirects_Mut(kind) ==
    IF kind \in {"markets", "marketcfg", "openidcfg", "loginpage"} THEN "default"
    ELSE IF kind \in {"identifier", "password"} THEN "follow" ELSE "no"

\* allow_redirects: not passed, True or False
FollowRedirects(kind) ==
    IF kind \in {"markets", "marketcfg", "openidcfg", "loginpage"} THEN "default"
    ELSE IF kind = "identifier" THEN "follow" ELSE "no"

\* cookies=: the response whose cookies the request carries
Cookies(kind) ==
    IF kind \in {"identifier", "password", "fwd1", "fwd2"} THEN "loginpage"
    ELSE IF kind = "codeauth" THEN "fwd2"
    ELSE IF kind = "mbbrefresh" THEN "register"
    ELSE "none"

\* the position of the request named kind among the awaits
StepOf(kind) == CHOOSE i \in 1..Len(LoginSteps) : LoginSteps[i] = kind

\* the value of cookies=: the cookies of one response among those received
Carried(rcvd, kind) ==
    IF Cookies(kind) = "none" THEN {} ELSE rcvd[StepOf(Cookies(kind))].cookies

NoData ==
    [fields |-> {}, code |-> Absent, token |-> Absent, challenge |-> Absent,
     state |-> Absent, nonce |-> Absent, verifier |-> Absent]

Draw_Mut(n) == [verifier |-> 1, state |-> 1, nonce |-> 1]

\* the n-th draw of os.urandom(32) and of the two uuid4(): a verifier, a
\* state and a nonce no earlier draw has given
Draw(n) == [verifier |-> n, state |-> n, nonce |-> n]

\* code_challenge: the S256 digest of the verifier, one per verifier
Challenge(verifier) == [method |-> "S256", of |-> verifier]

\* a request of login_request, sent after the responses rcvd
LoginRequest(kind, target, data, rcvd) ==
    [kind |-> kind, method |-> Method(kind), target |-> target,
     redirects |-> FollowRedirects(kind), cookies |-> Carried(rcvd, kind),
     data |-> data]

\* get_hidden_html_input_form_data: the given fields and the hidden inputs
\* of the page
HiddenFormData(page, fields) == fields \cup page.hidden

\* get_post_url fails: no form tag or no action (None has no .get or no
\* .startswith), or an action starting with neither "http" nor "/"
PostUrlError(page) ==
    IF page.form = NoForm \/ page.form.action = Absent THEN Has("AttributeError")
    ELSE IF Val(page.form.action).start = "other" THEN Has("RequestException")
    ELSE Absent

\* get_post_url: the action when absolute, else the origin of url and the
\* action (to_absolute)
PostUrl(page, url) ==
    LET action == Val(page.form.action)
    IN IF action.start = "http" THEN Url(action.origin, action.path)
       ELSE Url(url.origin, action.path)

ReplaceIdentifier_Mut(url) == url

\* submit_url.replace("identifier", "authenticate")
ReplaceIdentifier(url) ==
    Url(url.origin,
        [i \in 1..Len(url.path) |->
            IF url.path[i] = "identifier" THEN "authenticate" ELSE url.path[i]])

\* codeauth_rsp.headers["Location"][len("myaudi:///?"):], then
\* parse_qs(...)["code"][0]: the first eleven characters are dropped,
\* whatever they are
AuthCode(location) == location.code

IdleLogin ==
    [pc |-> "idle", step |-> 0, sent |-> <<>>, rcvd |-> <<>>, exc |-> Absent,
     failed |-> 0, pkce |-> Absent, authEndpoint |-> DefaultAuthEndpoint,
     submitUrl |-> DefaultAuthEndpoint, submitData |-> {}]

\* the coroutine awaits the answer to the request named kind
Awaiting(t, kind) ==
    /\ lg[t].pc = "await"
    /\ LoginSteps[lg[t].step] = kind

Failed_Mut(f, r, cls) ==
    [f EXCEPT !.pc = "done", !.rcvd = Append(@, r), !.failed = f.step]

\* an exception leaves login_request after the answer r
Failed(f, r, cls) ==
    [f EXCEPT !.pc = "done", !.rcvd = Append(@, r), !.exc = Has(cls),
              !.failed = f.step]

\* the next request is sent after the answer r
Proceed(f, r, target, data) ==
    [f EXCEPT !.step = @ + 1, !.rcvd = Append(@, r),
              !.sent = Append(@, LoginRequest(LoginSteps[f.step + 1], target, data,
                                               Append(f.rcvd, r)))]

\* the exception of a token answer that cannot be used
TokenError(r) ==
    IF r = Raise THEN "RequestException"
    ELSE IF r = Garbage THEN "JSONDecodeError"
    ELSE "TypeError"

LoginCall_Mut(t) ==
    /\ Idle(t)
    /\ apiToken' = None
    /\ xclientId' = "None"
    /\ lg' = [lg EXCEPT ![t] =
                [IdleLogin EXCEPT
                   !.pc = "await", !.step = 1,
                   !.sent = <<LoginRequest(LoginSteps[1], MarketsUrl, NoData, <<>>)>>]]
    /\ homeRegion' = [v \in Vins |-> None]
    /\ homeRegionSetter' = [v \in Vins |-> None]
    /\ UNCHANGED <<mbboauthToken, vwToken, bearer, audiToken, sched, rf, hist, pl,
                   hr, hrRequests, hrResolved, market, cmdVars>>

\* the call up to the markets request
LoginCall(t) ==
    /\ Idle(t)
    /\ apiToken' = None
    /\ xclientId' = "None"
    /\ lg' = [lg EXCEPT ![t] =
                [IdleLogin EXCEPT
                   !.pc = "await", !.step = 1,
                   !.sent = <<LoginRequest(LoginSteps[1], MarketsUrl, NoData, <<>>)>>]]
    /\ UNCHANGED <<mbboauthToken, vwToken, bearer, audiToken, sched, rf, hist, pl,
                   homeVars, market, cmdVars>>

CountryListed_Mut(markets) == TRUE

\* self._country.upper() in markets_json["countries"]["countrySpecifications"]
CountryListed(markets) == markets.listed

\* the markets document, up to the market configuration request
LoginMarkets(t, r) ==
    /\ Awaiting(t, "markets")
    /\ r \in LoginResponses("markets")
    /\ IF r = Raise
       THEN /\ lg' = [lg EXCEPT ![t] = Failed(@, r, "RequestException")]
            /\ UNCHANGED market
       ELSE IF ~CountryListed(r)
       THEN /\ lg' = [lg EXCEPT ![t] = Failed(@, r, "Country not found")]
            /\ UNCHANGED market
       ELSE IF r.language = Absent
       THEN /\ lg' = [lg EXCEPT ![t] = Failed(@, r, "KeyError")]
            /\ UNCHANGED market
       ELSE /\ market' = [market EXCEPT !.language = Val(r.language)]
            /\ lg' = [lg EXCEPT ![t] =
                        Proceed(@, r, MarketCfgUrl(Val(r.language)), NoData)]
    /\ UNCHANGED <<mbboauthToken, vwToken, bearer, audiToken, apiToken, sched, rf,
                   hist, pl, homeVars, xclientId, cmdVars>>

\* the value of a configuration key
Config(key) == "config:" \o key

\* the market configuration, up to the OpenID configuration request
LoginMarketCfg(t, r) ==
    /\ Awaiting(t, "marketcfg")
    /\ r \in LoginResponses("marketcfg")
    /\ IF r = Raise
       THEN /\ lg' = [lg EXCEPT ![t] = Failed(@, r, "RequestException")]
            /\ UNCHANGED market
       ELSE LET client == IF "idkClientIDAndroidLive" \in r.keys
                          THEN Config("idkClientIDAndroidLive") ELSE "default"
                mbb == IF "mbbOAuthBaseURLLive" \in r.keys
                       THEN Config("mbbOAuthBaseURLLive") ELSE "default"
            IN IF "authorizationServerBaseURLLive" \in r.keys
                  /\ "myAudiAuthorizationServerProxyServiceURLProduction" \notin r.keys
               THEN /\ market' = [market EXCEPT !.client_id = client,
                                                !.azsBase = "default"]
                    /\ lg' = [lg EXCEPT ![t] = Failed(@, r, "KeyError")]
               ELSE /\ market' =
                         [market EXCEPT
                            !.client_id = client,
                            !.azsBase =
                               IF "authorizationServerBaseURLLive" \in r.keys
                               THEN Config("myAudiAuthorizationServerProxyServiceURLProduction")
                               ELSE "default",
                            !.mbbBase = mbb]
                    /\ lg' = [lg EXCEPT ![t] = Proceed(@, r, OpenIdCfgUrl, NoData)]
    /\ UNCHANGED <<mbboauthToken, vwToken, bearer, audiToken, apiToken, sched, rf,
                   hist, pl, homeVars, xclientId, cmdVars>>

\* the OpenID configuration, up to the GET of the login page
LoginOpenIdCfg(t, r) ==
    /\ Awaiting(t, "openidcfg")
    /\ r \in LoginResponses("openidcfg")
    /\ IF r = Raise
       THEN /\ lg' = [lg EXCEPT ![t] = Failed(@, r, "RequestException")]
            /\ UNCHANGED market
            /\ UNCHANGED issued
       ELSE LET endpoint == IF "authorization_endpoint" \in r.keys
                            THEN ConfigAuthEndpoint ELSE DefaultAuthEndpoint
                drawn == Draw(Cardinality(issued) + 1)
            IN /\ Cardinality(issued) < MaxLogins
               /\ market' = [market EXCEPT
                               !.tokenEndpoint = IF "token_endpoint" \in r.keys
                                                 THEN Config("token_endpoint")
                                                 ELSE "default"]
               /\ issued' = issued \cup {drawn}
               /\ lg' = [lg EXCEPT ![t] =
                           Proceed([@ EXCEPT !.authEndpoint = endpoint,
                                             !.pkce = Has(drawn)], r, endpoint,
                                   [NoData EXCEPT
                                      !.challenge = Has(Challenge(drawn.verifier)),
                                      !.state = Has(drawn.state),
                                      !.nonce = Has(drawn.nonce)])]
    /\ UNCHANGED <<mbboauthToken, vwToken, bearer, audiToken, apiToken, sched, rf,
                   hist, pl, homeVars, xclientId, country, spin, apiLevel, cm,
                   polled>>

\* the login page, up to the POST of the identifier
LoginPage(t, r) ==
    /\ Awaiting(t, "loginpage")
    /\ r \in LoginResponses("loginpage")
    /\ IF r = Raise
       THEN lg' = [lg EXCEPT ![t] = Failed(@, r, "RequestException")]
       ELSE IF PostUrlError(r) # Absent
       THEN lg' = [lg EXCEPT ![t] = Failed(@, r, Val(PostUrlError(r)))]
       ELSE LET url == PostUrl(r, lg[t].authEndpoint)
                data == HiddenFormData(r, {"email"})
            IN lg' = [lg EXCEPT ![t] =
                        Proceed([@ EXCEPT !.submitUrl = url, !.submitData = data],
                                r, url, [NoData EXCEPT !.fields = data])]
    /\ UNCHANGED <<mbboauthToken, vwToken, bearer, audiToken, apiToken, sched, rf,
                   hist, pl, homeVars, market, xclientId, cmdVars>>

\* the answer to the identifier, up to the POST of the password
LoginIdentifier(t, r) ==
    /\ Awaiting(t, "identifier")
    /\ r \in LoginResponses("identifier")
    /\ IF r = Raise
       THEN lg' = [lg EXCEPT ![t] = Failed(@, r, "RequestException")]
       ELSE IF r.hmac
       THEN LET url == ReplaceIdentifier(lg[t].submitUrl)
                data == lg[t].submitData \cup {"hmac", "password"}
            IN lg' = [lg EXCEPT ![t] =
                        Proceed([@ EXCEPT !.submitUrl = url, !.submitData = data],
                                r, url, [NoData EXCEPT !.fields = data])]
       ELSE IF PostUrlError(r) # Absent
       THEN lg' = [lg EXCEPT ![t] =
                     Failed([@ EXCEPT !.submitData =
                                         HiddenFormData(r, {"password"})],
                            r, Val(PostUrlError(r)))]
       ELSE LET url == PostUrl(r, lg[t].submitUrl)
                data == HiddenFormData(r, {"password"})
            IN lg' = [lg EXCEPT ![t] =
                        Proceed([@ EXCEPT !.submitUrl = url, !.submitData = data],
                                r, url, [NoData EXCEPT !.fields = data])]
    /\ UNCHANGED <<mbboauthToken, vwToken, bearer, audiToken, apiToken, sched, rf,
                   hist, pl, homeVars, market, xclientId, cmdVars>>

\* the answer to the password, to the first hop or to the second hop, up to
\* the GET of its Location
LoginHop(t, r) ==
    /\ \E kind \in {"password", "fwd1", "fwd2"} :
          Awaiting(t, kind) /\ r \in LoginResponses(kind)
    /\ IF r = Raise
       THEN lg' = [lg EXCEPT ![t] = Failed(@, r, "RequestException")]
       ELSE IF r.location = Absent
       THEN lg' = [lg EXCEPT ![t] = Failed(@, r, "KeyError")]
       ELSE lg' = [lg EXCEPT ![t] = Proceed(@, r, Val(r.location), NoData)]
    /\ UNCHANGED <<mbboauthToken, vwToken, bearer, audiToken, apiToken, sched, rf,
                   hist, pl, homeVars, market, xclientId, cmdVars>>

\* the answer to the third hop, up to the identity token request
LoginCodeAuth(t, r) ==
    /\ Awaiting(t, "codeauth")
    /\ r \in LoginResponses("codeauth")
    /\ IF r = Raise
       THEN lg' = [lg EXCEPT ![t] = Failed(@, r, "RequestException")]
       ELSE IF r.location = Absent \/ AuthCode(Val(r.location)) = Absent
       THEN lg' = [lg EXCEPT ![t] = Failed(@, r, "KeyError")]
       ELSE lg' = [lg EXCEPT ![t] =
                     Proceed(@, r, [endpoint |-> market.tokenEndpoint],
                             [NoData EXCEPT !.code = AuthCode(Val(r.location)),
                                            !.verifier = Has(Val(lg[t].pkce).verifier)])]
    /\ UNCHANGED <<mbboauthToken, vwToken, bearer, audiToken, apiToken, sched, rf,
                   hist, pl, homeVars, market, xclientId, cmdVars>>

\* the identity token, up to the authorization-server token request
LoginIdToken(t, r) ==
    /\ Awaiting(t, "idtoken")
    /\ r \in LoginResponses("idtoken")
    /\ IF ResponseFails(r)
       THEN /\ lg' = [lg EXCEPT ![t] = Failed(@, r, TokenError(r))]
            /\ UNCHANGED bearer
       ELSE /\ bearer' = r
            /\ IF r = JsonNull
               THEN lg' = [lg EXCEPT ![t] = Failed(@, r, "TypeError")]
               ELSE IF r.access_token = Absent
               THEN lg' = [lg EXCEPT ![t] = Failed(@, r, "KeyError")]
               ELSE lg' = [lg EXCEPT ![t] =
                             Proceed(@, r, [endpoint |-> market.azsBase],
                                     [NoData EXCEPT !.token = r.access_token])]
    /\ UNCHANGED <<mbboauthToken, vwToken, audiToken, apiToken, sched, rf, hist, pl,
                   homeVars, market, xclientId, cmdVars>>

\* the authorization-server token, up to the client registration
LoginAzsToken(t, r) ==
    /\ Awaiting(t, "azstoken")
    /\ r \in LoginResponses("azstoken")
    /\ IF ResponseFails(r)
       THEN /\ lg' = [lg EXCEPT ![t] = Failed(@, r, TokenError(r))]
            /\ UNCHANGED audiToken
       ELSE /\ audiToken' = r
            /\ lg' = [lg EXCEPT ![t] =
                        Proceed(@, r, [endpoint |-> market.mbbBase], NoData)]
    /\ UNCHANGED <<mbboauthToken, vwToken, bearer, apiToken, sched, rf, hist, pl,
                   homeVars, market, xclientId, cmdVars>>

\* the client registration, up to the mbbOAuth token request
LoginRegister(t, r) ==
    /\ Awaiting(t, "register")
    /\ r \in LoginResponses("register")
    /\ IF ResponseFails(r) \/ r = JsonNull
       THEN /\ lg' = [lg EXCEPT ![t] = Failed(@, r, TokenError(r))]
            /\ UNCHANGED xclientId
       ELSE IF r.client_id = Absent
       THEN /\ lg' = [lg EXCEPT ![t] = Failed(@, r, "KeyError")]
            /\ UNCHANGED xclientId
       ELSE /\ xclientId' = Val(r.client_id)
            /\ IF bearer = None \/ "id_token" \notin DOMAIN bearer
                  \/ bearer.id_token = Absent
               THEN lg' = [lg EXCEPT ![t] = Failed(@, r, "KeyError")]
               ELSE lg' = [lg EXCEPT ![t] =
                             Proceed(@, r, [endpoint |-> market.mbbBase],
                                     [NoData EXCEPT !.token = bearer.id_token])]
    /\ UNCHANGED <<mbboauthToken, vwToken, bearer, audiToken, apiToken, sched, rf,
                   hist, pl, homeVars, market, cmdVars>>

\* the mbbOAuth token, up to its immediate refresh
LoginMbbAuth(t, r) ==
    /\ Awaiting(t, "mbbauth")
    /\ r \in LoginResponses("mbbauth")
    /\ IF ResponseFails(r)
       THEN /\ lg' = [lg EXCEPT ![t] = Failed(@, r, TokenError(r))]
            /\ UNCHANGED mbboauthToken
       ELSE /\ mbboauthToken' = r
            /\ IF r = JsonNull
               THEN lg' = [lg EXCEPT ![t] = Failed(@, r, "TypeError")]
               ELSE IF r.refresh_token = Absent
               THEN lg' = [lg EXCEPT ![t] = Failed(@, r, "KeyError")]
               ELSE lg' = [lg EXCEPT ![t] =
                             Proceed(@, r, [endpoint |-> market.mbbBase],
                                     [NoData EXCEPT !.token = r.refresh_token])]
    /\ UNCHANGED <<vwToken, bearer, audiToken, apiToken, sched, rf, hist, pl,
                   homeVars, market, xclientId, cmdVars>>

\* the refreshed mbbOAuth token: the legacy token; login_request returns
LoginMbbRefresh(t, r) ==
    /\ Awaiting(t, "mbbrefresh")
    /\ r \in LoginResponses("mbbrefresh")
    /\ IF ResponseFails(r)
       THEN /\ lg' = [lg EXCEPT ![t] = Failed(@, r, TokenError(r))]
            /\ UNCHANGED vwToken
       ELSE /\ vwToken' = r
            /\ lg' = [lg EXCEPT ![t].pc = "done", ![t].rcvd = Append(@, r)]
    /\ UNCHANGED <<mbboauthToken, bearer, audiToken, apiToken, sched, rf, hist, pl,
                   homeVars, market, xclientId, cmdVars>>

\* the caller takes the result or the exception; the frame is gone
LoginReturn(t) ==
    /\ lg[t].pc = "done"
    /\ lg' = [lg EXCEPT ![t] = IdleLogin]
    /\ UNCHANGED <<mbboauthToken, vwToken, bearer, audiToken, apiToken, sched, rf,
                   hist, pl, homeVars, market, xclientId, cmdVars>>

(***************************************************************************)
(* Vehicle queries and commands                                            *)
(*                                                                         *)
(* The frame of a call keeps the requests it sent.  A call that needs the  *)
(* home region of a VIN not yet cached enters the getter (the hr frame of  *)
(* the coroutine), and a command that is confirmed enters                  *)
(* check_request_succeeded (its pl frame).                                 *)
(***************************************************************************)
\* country, spin and api_level as given to __init__ (a country of None
\* becomes "DE", an api_level of None the default level)
Countries == {"DE", "US", "FR"}
Pins == {None, Str(<<"1234">>)}
ApiLevels == {0, 1, 2}

\* the queries and commands, and the values of their bool arguments
Queries == {"get_vehicles", "get_stored_position", "get_charger"}
Commands ==
    {"set_vehicle_lock", "set_battery_charger", "set_climatisation",
     "start_climate_control", "set_window_heating"}
CmdArgs == [on : BOOLEAN, timer : BOOLEAN]

\* the operation identifiers of the backend
Ids == {"id1"}

\* the answers to the security-pin-auth-requested GET
ChallengeJson == [securityToken : Opt({"sec1"}), challenge : Opt({"ch1"})]
\* the answers to the security-pin-auth-completed POST
CompletedJson == [securityToken : Opt({"sec2"})]
\* the answers to a command POST: with or without the identifier of the
\* operation (requestId or actionId)
AcceptedJson == [id : Opt(Ids)]
\* the answers to a request whose result the service does not read
AnyJson == {[data |-> "json"]}

\* the answers to the request named kind
CmdResponses(kind) ==
    {Raise, None} \cup
    (CASE kind = "challenge" -> ChallengeJson
       [] kind = "completed" -> CompletedJson
       [] kind \in {"lock", "climastop", "climastart", "window"} -> AcceptedJson
       [] OTHER -> AnyJson)

IdleCmd ==
    [pc |-> "idle", op |-> "none", arg |-> [on |-> FALSE, timer |-> FALSE],
     vin |-> "v1", sent |-> <<>>, rcvd |-> <<>>, exc |-> Absent, hdr |-> Absent,
     stage |-> "none", security |-> Absent, check |-> Absent, polls |-> 0,
     pre |-> Absent]

\* "Bearer " + self.vwToken.get("access_token") fails: no vwToken or None
\* (no .get), or no access_token (str + None)
VwHeaderError(vw) ==
    IF vw \in {NoAttr, None} THEN Has("AttributeError")
    ELSE IF vw.access_token = Absent THEN Has("TypeError")
    ELSE Absent

\* "Bearer " + self._bearer_token_json["access_token"] fails
BearerHeaderError(b) ==
    IF b = None THEN Has("TypeError")
    ELSE IF b.access_token = Absent THEN Has("KeyError")
    ELSE Absent

\* _get_vehicle_action_header: the Host header
ActionHost(host) ==
    IF host # Absent THEN Val(host)
    ELSE IF country \in {"DE", "US"} THEN "mal-3a.prd.eu.dp.vwg-connect.com"
    ELSE "msg.volkswagen.de"

Deprecated_Mut(op, arg) == FALSE

\* the branches that raise NotImplementedError: set_battery_charger without
\* start, set_climatisation with start
Deprecated(op, arg) ==
    \/ op = "set_battery_charger" /\ ~arg.on
    \/ op = "set_climatisation" /\ arg.on

ApiFamily_Mut == IF apiLevel = 1 THEN "legacy" ELSE "none"

\* if api_level == 0 ... elif api_level == 1 ...: the branch of the climate
\* commands, none for another level
ApiFamily ==
    IF apiLevel = 0 THEN "legacy" ELSE IF apiLevel = 1 THEN "bff" ELSE "none"

\* the hosts of the URLs that are not built from a home region
FixedBase == Str(<<"https://", "mal-", "3a.prd.eu.dp.vwg-connect.com">>)
BffBase == Str(<<"https://", "emea.bff.cariad.digital">>)
RegionBase == Str(<<"https://", Region, ".bff.cariad.digital">>)

\* the access token of a token object given to use_token
Access(tok) == IF tok \in {None, NoAttr} THEN Absent ELSE tok.access_token

\* the Host header of the request named kind ("none": no such header)
CmdHost(kind) ==
    IF kind \in {"lock", "window"} THEN ActionHost(Absent)
    ELSE IF kind \in {"climastop", "climastart"}
         THEN IF country = "US" THEN ActionHost(Absent)
              ELSE ActionHost(Has("msg.volkswagen.de"))
    ELSE "none"

CmdMethod(kind) ==
    IF kind \in {"challenge", "get_vehicles", "get_stored_position", "get_charger"}
    THEN "GET"
    ELSE IF kind = "charger" THEN "PUT" ELSE "POST"

CmdRequest(kind, token, base, host, security) ==
    [kind |-> kind, method |-> CmdMethod(kind), token |-> token, base |-> base,
     host |-> host, security |-> security]

CheckArgs_Mut(op, arg, base, id) ==
    [url |-> <<base, op, id>>,
     action |-> <<op, arg.on>>,
     successCode |-> SUCCEEDED,
     failedCode |-> Has(FAILED),
     path |-> IF op = "set_vehicle_lock" THEN "requestStatusResponse.status"
              ELSE "action.actionState"]

\* the arguments of check_request_succeeded for a command
CheckArgs(op, arg, base, id) ==
    [url |-> <<base, op, id>>,
     action |-> <<op, arg.on>>,
     successCode |-> IF op = "set_vehicle_lock" THEN REQUEST_SUCCESSFUL ELSE SUCCEEDED,
     failedCode |-> IF op = "set_vehicle_lock" THEN Has(REQUEST_FAILED) ELSE Has(FAILED),
     path |-> IF op = "set_vehicle_lock" THEN "requestStatusResponse.status"
              ELSE "action.actionState"]

\* an exception leaves the call
CmdFail(f, cls) == [f EXCEPT !.pc = "done", !.exc = Has(cls)]

\* the request named kind is sent to a URL on base, with the access token
\* of its Authorization header or of the transport
CmdSend(f, kind, token, base) ==
    [f EXCEPT !.pc = "await", !.stage = kind,
              !.sent = Append(@, CmdRequest(kind, token, base, CmdHost(kind),
                                            f.security))]

\* the state a call may change besides its frame
Snapshot ==
    [session |-> Session, market |-> market, xclientId |-> xclientId,
     homeRegion |-> homeRegion, homeRegionSetter |-> homeRegionSetter,
     hrRequests |-> hrRequests, apiToken |-> apiToken]

\* the frame changes and nothing else
CmdOnly(t, f) ==
    /\ cm' = [cm EXCEPT ![t] = f]
    /\ UNCHANGED <<homeVars, apiToken, pl, polled>>

\* the frame changes and the transport gets the token tok (use_token)
CmdUse(t, f, tok) ==
    /\ cm' = [cm EXCEPT ![t] = f]
    /\ apiToken' = tok
    /\ UNCHANGED <<homeVars, pl, polled>>

\* await self._get_home_region(vin.upper()) (get = "home") or
\* _get_home_region_setter (get = "setter") inside the URL of the request
\* named kind: a cached region is read and the request is sent, else the
\* getter is entered; tok is the token of the transport before the getter
CmdResolve(t, f, get, kind, tok) ==
    LET cache == IF get = "home" THEN homeRegion ELSE homeRegionSetter
        token == IF f.hdr # Absent THEN f.hdr ELSE Access(tok)
    IN IF Cached(cache, f.vin)
       THEN CmdUse(t, CmdSend(f, kind, token, cache[f.vin]), tok)
       ELSE /\ cm' = [cm EXCEPT ![t] = [f EXCEPT !.pc = "home", !.stage = kind]]
            /\ HomeEnter(t, f.vin, get)
            /\ UNCHANGED <<pl, polled>>

\* a query or command is called: up to its return, its exception or its
\* first await
CmdCall(t, op, arg, vin) ==
    /\ Idle(t)
    /\ LET f == [IdleCmd EXCEPT !.op = op, !.arg = arg, !.vin = vin,
                                !.pre = Has(Snapshot)]
           vw == [f EXCEPT !.hdr = vwToken.access_token]
           br == [f EXCEPT !.hdr = bearer.access_token]
       IN IF Deprecated(op, arg)
          THEN CmdOnly(t, CmdFail(f, "NotImplementedError"))
          ELSE CASE op = "set_vehicle_lock" ->
                      IF VwHeaderError(vwToken) # Absent
                      THEN CmdOnly(t, CmdFail(f, Val(VwHeaderError(vwToken))))
                      ELSE CmdResolve(t, vw, "setter", "challenge", apiToken)
                 [] op = "set_battery_charger" ->
                      IF BearerHeaderError(bearer) # Absent
                      THEN CmdOnly(t, CmdFail(f, Val(BearerHeaderError(bearer))))
                      ELSE CmdOnly(t, CmdSend(br, "charger", br.hdr, BffBase))
                 [] op = "set_climatisation" /\ ApiFamily = "legacy" ->
                      IF VwHeaderError(vwToken) # Absent
                      THEN CmdOnly(t, CmdFail(f, Val(VwHeaderError(vwToken))))
                      ELSE IF country = "US"
                      THEN CmdOnly(t, CmdSend(vw, "climastop", vw.hdr, FixedBase))
                      ELSE CmdResolve(t, vw, "home", "climastop", apiToken)
                 [] op = "set_climatisation" /\ ApiFamily = "bff" ->
                      IF BearerHeaderError(bearer) # Absent
                      THEN CmdOnly(t, CmdFail(f, Val(BearerHeaderError(bearer))))
                      ELSE CmdOnly(t, CmdSend(br, "climastop1", br.hdr, BffBase))
                 [] op = "set_climatisation" /\ ApiFamily = "none" ->
                      CmdOnly(t, [f EXCEPT !.pc = "done"])
                 [] op = "start_climate_control" /\ ApiFamily = "legacy" ->
                      IF VwHeaderError(vwToken) # Absent
                      THEN CmdOnly(t, CmdFail(f, Val(VwHeaderError(vwToken))))
                      ELSE IF country = "US"
                      THEN CmdOnly(t, CmdSend(vw, "climastart", vw.hdr, FixedBase))
                      ELSE CmdResolve(t, vw, "home", "climastart", apiToken)
                 [] op = "start_climate_control" /\ ApiFamily = "bff" ->
                      IF BearerHeaderError(bearer) # Absent
                      THEN CmdOnly(t, CmdFail(f, Val(BearerHeaderError(bearer))))
                      ELSE CmdOnly(t, CmdSend(br, "climastart1", br.hdr, BffBase))
                 [] op = "start_climate_control" /\ ApiFamily = "none" ->
                      CmdOnly(t, [f EXCEPT !.pc = "done"])
                 [] op = "set_window_heating" ->
                      IF VwHeaderError(vwToken) # Absent
                      THEN CmdOnly(t, CmdFail(f, Val(VwHeaderError(vwToken))))
                      ELSE CmdResolve(t, vw, "home", "window", apiToken)
                 [] op = "get_vehicles" ->
                      IF vwToken = NoAttr
                      THEN CmdOnly(t, CmdFail(f, "AttributeError"))
                      ELSE CmdUse(t, CmdSend(f, op, Access(vwToken), DefaultHome),
                                  vwToken)
                 [] op = "get_stored_position" ->
                      CmdUse(t, CmdSend(f, op, Access(bearer), RegionBase), bearer)
                 [] op = "get_charger" ->
                      IF vwToken = NoAttr
                      THEN CmdOnly(t, CmdFail(f, "AttributeError"))
                      ELSE CmdResolve(t, f, "home", op, vwToken)
    /\ UNCHANGED <<mbboauthToken, vwToken, bearer, audiToken, sched, rf, hist,
                   loginVars, country, spin, apiLevel, issued>>

\* the getter entered by the call has resolved the region: the request is
\* sent
CmdHomeDone(t) ==
    /\ cm[t].pc = "home"
    /\ hr[t].pc = "done"
    /\ LET f == cm[t]
           token == IF f.hdr # Absent THEN f.hdr ELSE Access(apiToken)
       IN cm' = [cm EXCEPT ![t] = CmdSend(f, f.stage, token, Val(hr[t].ret))]
    /\ hr' = [hr EXCEPT ![t] = IdleHome]
    /\ UNCHANGED <<mbboauthToken, vwToken, bearer, audiToken, apiToken, sched, rf,
                   hist, pl, homeRegion, homeRegionSetter, hrRequests, hrResolved,
                   loginVars, country, spin, apiLevel, polled, issued>>

\* _generate_security_pin_hash raises: no PIN is configured
PinMissing_Mut == FALSE

PinMissing == spin = None

\* the request named kind was answered by r, which the code cannot read:
\* None where it subscripts, an object without a key it reads
Unreadable(kind, r) ==
    IF kind \notin {"challenge", "completed", "lock", "climastop", "climastart",
                    "window"}
    THEN Absent
    ELSE IF r = None THEN Has("TypeError")
    ELSE IF kind = "challenge" /\ (r.securityToken = Absent \/ r.challenge = Absent)
    THEN Has("KeyError")
    ELSE IF kind = "completed" /\ r.securityToken = Absent THEN Has("KeyError")
    ELSE IF kind \in {"lock", "climastop", "climastart", "window"} /\ r.id = Absent
    THEN Has("KeyError")
    ELSE Absent

\* the answer r to the awaited request, up to the return, the exception or
\* the next await
CmdResponse(t, r) ==
    /\ cm[t].pc = "await"
    /\ r \in CmdResponses(cm[t].stage)
    /\ LET kind == cm[t].stage
           f == [cm[t] EXCEPT !.rcvd = Append(@, r)]
           vw == [f EXCEPT !.hdr = vwToken.access_token]
       IN IF r = Raise
          THEN CmdOnly(t, CmdFail(f, "RequestException"))
          ELSE IF kind \in {"challenge", "completed", "lock", "climastop",
                           "climastart", "window"}
                  /\ r # None /\ Unreadable(kind, r) = Absent
          THEN CASE kind = "challenge" ->
                      IF PinMissing
                      THEN CmdOnly(t, CmdFail(f, "sPin is required"))
                      ELSE IF VwHeaderError(vwToken) # Absent
                      THEN CmdOnly(t, CmdFail(f, Val(VwHeaderError(vwToken))))
                      ELSE CmdResolve(t, vw, "setter", "completed", apiToken)
                 [] kind = "completed" ->
                      IF VwHeaderError(vwToken) # Absent
                      THEN CmdOnly(t, CmdFail(f, Val(VwHeaderError(vwToken))))
                      ELSE CmdOnly(t, CmdSend([vw EXCEPT !.security = r.securityToken],
                                              "lock", vw.hdr, FixedBase))
                 [] OTHER ->
                      LET base == IF kind = "lock" \/ country = "US" THEN FixedBase
                                  ELSE homeRegion[f.vin]
                          check == CheckArgs(f.op, f.arg, base, Val(r.id))
                      IN /\ cm' = [cm EXCEPT ![t] =
                                     [f EXCEPT !.pc = "poll", !.check = Has(check)]]
                         /\ PollEnter(t, check.successCode, check.failedCode)
                         /\ polled' = polled \cup
                                         {<<check.successCode, check.failedCode>>}
                         /\ UNCHANGED <<homeVars, apiToken>>
          ELSE IF Unreadable(kind, r) # Absent
          THEN CmdOnly(t, CmdFail(f, Val(Unreadable(kind, r))))
          ELSE CmdOnly(t, [f EXCEPT !.pc = "done"])
    /\ UNCHANGED <<mbboauthToken, vwToken, bearer, audiToken, sched, rf, hist,
                   loginVars, country, spin, apiLevel, issued>>

\* check_request_succeeded has ended: its result or its exception is that
\* of the command
CmdPollDone(t) ==
    /\ cm[t].pc = "poll"
    /\ pl[t].pc = "done"
    /\ cm' = [cm EXCEPT ![t].pc = "done", ![t].polls = pl[t].gets,
                 ![t].exc = IF pl[t].exc = Absent THEN Absent
                            ELSE Has(Val(pl[t].exc).cls)]
    /\ pl' = [pl EXCEPT ![t] = IdlePoll]
    /\ UNCHANGED <<mbboauthToken, vwToken, bearer, audiToken, apiToken, sched, rf,
                   hist, homeVars, loginVars, country, spin, apiLevel, polled, issued>>

CmdReturn_Mut(t) ==
    /\ cm[t].pc = "done"
    /\ cm' = [cm EXCEPT ![t] = IdleCmd]
    /\ market' = FreshMarket
    /\ UNCHANGED <<mbboauthToken, vwToken, bearer, audiToken, apiToken, sched, rf,
                   hist, pl, homeVars, xclientId, lg, country, spin, apiLevel,
                   polled, issued>>

\* the caller takes the result or the exception; the frame is gone
CmdReturn(t) ==
    /\ cm[t].pc = "done"
    /\ cm' = [cm EXCEPT ![t] = IdleCmd]
    /\ UNCHANGED <<mbboauthToken, vwToken, bearer, audiToken, apiToken, sched, rf,
                   hist, pl, homeVars, loginVars, country, spin, apiLevel, polled, issued>>

(***************************************************************************)
(* Sessions the program can be in when refresh is called: never logged in,  *)
(* or after login_request, which stores the identity token, the             *)
(* authorization-server token, the mbbOAuth record and, last, the legacy    *)
(* token (a login that fails on its last request leaves vwToken unset).     *)
(***************************************************************************)
\* a service that never logged in
InitFresh ==
    /\ mbboauthToken = None
    /\ vwToken = NoAttr
    /\ bearer = None
    /\ audiToken = NoAttr
    /\ market = FreshMarket
    /\ xclientId = "None"

InitSession ==
    \/ InitFresh
    \/ /\ market = DefaultMarket
       /\ xclientId = "cid"
       /\ mbboauthToken \in [access_token : Some(LoginTok), refresh_token : Opt(LoginTok),
                             expires_in : Opt(ExpiresInVals)]
       /\ vwToken \in {NoAttr} \cup [access_token : Some(LoginTok),
                                     refresh_token : Opt(LoginTok)]
       /\ bearer \in [access_token : Some(LoginTok), refresh_token : Opt(LoginTok)]
       /\ audiToken \in [access_token : Some(LoginTok)]

\* a session after a complete login; polling follows a command that was sent
\* with the legacy token, so vwToken is set
InitLoggedIn ==
    /\ mbboauthToken \in [access_token : Some(LoginTok), refresh_token : Some(LoginTok),
                          expires_in : Some({REFRESH_MARGIN + 1})]
    /\ vwToken \in [access_token : Some(LoginTok), refresh_token : Some(LoginTok)]
    /\ bearer \in [access_token : Some(LoginTok), refresh_token : Some(LoginTok)]
    /\ audiToken \in [access_token : Some(LoginTok)]
    /\ market = DefaultMarket
    /\ xclientId = "cid"

InitFrames ==
    /\ apiToken = None
    /\ rf = [t \in Coroutines |-> IdleFrame]
    /\ hist = [t \in Coroutines |-> NoHist]
    /\ pl = [t \in Coroutines |-> IdlePoll]
    /\ homeRegion = [v \in Vins |-> None]
    /\ homeRegionSetter = [v \in Vins |-> None]
    /\ hr = [t \in Coroutines |-> IdleHome]
    /\ lg = [t \in Coroutines |-> IdleLogin]
    /\ hrRequests = [v \in Vins |-> 0]
    /\ hrResolved = [v \in Vins |-> Absent]
    /\ cm = [t \in Coroutines |-> IdleCmd]
    /\ polled = {}
    /\ issued = {}

\* the service was constructed with the default country, a PIN and the
\* first API level
InitArgs ==
    /\ country = "DE"
    /\ spin = Str(<<"1234">>)
    /\ apiLevel = 0

\* one coroutine at a time
Init ==
    /\ InitSession
    /\ InitFrames
    /\ InitArgs
    /\ sched = {"c1"}

\* two coroutines sharing the session
InitConc ==
    /\ InitSession
    /\ InitFrames
    /\ InitArgs
    /\ sched = Coroutines

\* two coroutines sharing a session after a complete login
InitLoggedInConc ==
    /\ InitLoggedIn
    /\ InitFrames
    /\ InitArgs
    /\ sched = Coroutines

\* two coroutines sharing a session whose legacy token was renewed by a
\* refresh that failed at its identity step: the legacy and the identity
\* access tokens differ
InitCmdConc ==
    /\ mbboauthToken \in [access_token : Some(LoginTok), refresh_token : Some(LoginTok),
                          expires_in : Some({REFRESH_MARGIN + 1})]
    /\ vwToken \in Issue(MaxTok, <<Some(Tok), Some(Tok)>>)
    /\ bearer \in [access_token : Some(LoginTok), refresh_token : Some(LoginTok)]
    /\ bearer.access_token # vwToken.access_token
    /\ audiToken \in [access_token : Some(LoginTok)]
    /\ market = DefaultMarket
    /\ xclientId = "cid"
    /\ InitFrames
    /\ InitArgs
    /\ sched = Coroutines

\* a login on a fresh service or on a session after a complete login
InitLogin ==
    /\ InitFresh \/ InitLoggedIn
    /\ InitFrames
    /\ InitArgs
    /\ sched = {"c1"}

\* queries and commands of a service constructed with any arguments
InitCmd ==
    /\ InitFresh \/ InitLoggedIn
    /\ InitFrames
    /\ country \in Countries
    /\ spin \in Pins
    /\ apiLevel \in ApiLevels
    /\ sched = {"c1"}

InitPoll ==
    /\ InitLoggedIn
    /\ InitFrames
    /\ InitArgs
    /\ sched = {"c1"}

RefreshNext ==
    \E t \in sched :
        \/ \E e \in ElapsedVals : RefreshCall(t, e)
        \/ \E r \in {Raise, Garbage, JsonNull} \cup VwJson : RefreshMbbResponse(t, r)
        \/ \E r \in {Raise, Garbage, JsonNull} \cup BearerJson : RefreshIdkResponse(t, r)
        \/ \E r \in {Raise, Garbage, JsonNull} \cup AzsJson : RefreshAzsResponse(t, r)
        \/ RefreshReturn(t)

PollNext ==
    \E t \in sched :
        \/ \E c \in PollCodes : PollStart(t, c[1], c[2])
        \/ PollWake(t)
        \/ PollGetRaises(t)
        \/ \E s \in Statuses : PollResponse(t, s)
        \/ PollReturn(t)

HomeNext ==
    \E t \in sched :
        \/ \E v \in Vins, g \in {"home", "setter"} : HomeCall(t, v, g)
        \/ \E r \in HomeResponses : HomeResponse(t, r)
        \/ HomeReturn(t)

\* the homeRegion answers of the command runs: none, the default URI, or
\* another one
CmdHomeAnswers ==
    {Raise,
     [homeRegion |-> Has([baseUri |-> Has([content |-> Has(DefaultUri)])])],
     [homeRegion |-> Has([baseUri |-> Has([content |-> Has(Str(<<"mal-", "/api">>))])])]}

\* the statuses of the command runs: none, pending, or the success literal
CmdStatuses(t) == {Absent, Has("queued"), Has(pl[t].successCode)}

\* the bool arguments a call of op reads
ArgsOf(op) ==
    {a \in CmdArgs :
        /\ a.timer => op = "set_battery_charger"
        /\ a.on => op \in Commands \ {"start_climate_control"}}

\* queries and commands of one VIN, one call at a time
CmdNext ==
    \E t \in sched :
        \/ \E op \in Queries \cup Commands : \E a \in ArgsOf(op) : CmdCall(t, op, a, "v1")
        \/ \E r \in CmdHomeAnswers : HomeResponse(t, r)
        \/ CmdHomeDone(t)
        \/ \E r \in {Raise, None} \cup ChallengeJson \cup CompletedJson
                     \cup AcceptedJson \cup AnyJson : CmdResponse(t, r)
        \/ PollWake(t)
        \/ PollGetRaises(t)
        \/ \E s \in CmdStatuses(t) : PollResponse(t, s)
        \/ CmdPollDone(t)
        \/ CmdReturn(t)

\* the answers that set no cookie
Plain(S) == {r \in S : "cookies" \in DOMAIN r => r.cookies = {}}

\* one call of login_request, every answer setting no cookie: the exception
\* or the return stays with the caller
LoginNext ==
    \E t \in sched :
        \/ LoginCall(t)
        \/ \E r \in Plain(LoginResponses("markets")) : LoginMarkets(t, r)
        \/ \E r \in Plain(LoginResponses("marketcfg")) : LoginMarketCfg(t, r)
        \/ \E r \in Plain(LoginResponses("openidcfg")) : LoginOpenIdCfg(t, r)
        \/ \E r \in Plain(LoginResponses("loginpage")) : LoginPage(t, r)
        \/ \E r \in Plain(LoginResponses("identifier")) : LoginIdentifier(t, r)
        \/ \E r \in Plain({Raise} \cup Redirects(6) \cup Redirects(7) \cup Redirects(8)) :
              LoginHop(t, r)
        \/ \E r \in Plain(LoginResponses("codeauth")) : LoginCodeAuth(t, r)
        \/ \E r \in Plain(LoginResponses("idtoken")) : LoginIdToken(t, r)
        \/ \E r \in Plain(LoginResponses("azstoken")) : LoginAzsToken(t, r)
        \/ \E r \in Plain(LoginResponses("register")) : LoginRegister(t, r)
        \/ \E r \in Plain(LoginResponses("mbbauth")) : LoginMbbAuth(t, r)
        \/ \E r \in Plain(LoginResponses("mbbrefresh")) : LoginMbbRefresh(t, r)

\* the answers of a login whose documents, pages and tokens are complete
LoginComplete(kind) ==
    CASE kind = "markets" -> [listed |-> TRUE, language |-> Has("de")]
      [] kind = "marketcfg" -> [keys |-> MarketKeys]
      [] kind = "openidcfg" -> [keys |-> OpenIdKeys]
      [] kind = "loginpage" ->
            [form |-> [action |-> Has([start |-> "/", origin |-> "",
                                       path |-> <<"signin", "identifier">>])],
             hmac |-> FALSE, hidden |-> {"hidden"}, cookies |-> {}]
      [] kind = "identifier" ->
            [form |-> NoForm, hmac |-> TRUE, hidden |-> {}, cookies |-> {}]
      [] kind = "password" -> [location |-> Has(Loc(6)), cookies |-> {}]
      [] kind = "fwd1" -> [location |-> Has(Loc(7)), cookies |-> {}]
      [] kind = "fwd2" -> [location |-> Has(Loc(8)), cookies |-> {}]
      [] kind = "codeauth" ->
            [location |-> Has([prefix |-> CustomScheme, code |-> Has("code1")])]
      [] kind = "idtoken" ->
            CHOOSE j \in IdTokenJson : \A f \in DOMAIN j : j[f] # Absent
      [] kind = "azstoken" -> CHOOSE j \in [access_token : Some(LoginTok)] : TRUE
      [] kind = "register" -> [client_id |-> Has("cid"), cookies |-> {}]
      [] kind = "mbbauth" ->
            CHOOSE j \in MbbAuthJson : \A f \in DOMAIN j : j[f] # Absent
      [] kind = "mbbrefresh" ->
            CHOOSE j \in LoginVwJson : \A f \in DOMAIN j : j[f] # Absent

\* a request of the session is answered completely or raises
Answers(kind) == {Raise, LoginComplete(kind)}

\* a complete answer with any cookies, or the request raises
CookieAnswers(kind) ==
    {Raise} \cup
    (IF "cookies" \in DOMAIN LoginComplete(kind)
     THEN {[LoginComplete(kind) EXCEPT !.cookies = c] : c \in SetCookies(kind)}
     ELSE {LoginComplete(kind)})

\* one call of login_request whose answers are complete and set any cookies
CookieNext ==
    \E t \in sched :
        \/ LoginCall(t)
        \/ \E r \in CookieAnswers("markets") : LoginMarkets(t, r)
        \/ \E r \in CookieAnswers("marketcfg") : LoginMarketCfg(t, r)
        \/ \E r \in CookieAnswers("openidcfg") : LoginOpenIdCfg(t, r)
        \/ \E r \in CookieAnswers("loginpage") : LoginPage(t, r)
        \/ \E r \in CookieAnswers("identifier") : LoginIdentifier(t, r)
        \/ \E r \in CookieAnswers("password") \cup CookieAnswers("fwd1")
                     \cup CookieAnswers("fwd2") : LoginHop(t, r)
        \/ \E r \in CookieAnswers("codeauth") : LoginCodeAuth(t, r)
        \/ \E r \in CookieAnswers("idtoken") : LoginIdToken(t, r)
        \/ \E r \in CookieAnswers("azstoken") : LoginAzsToken(t, r)
        \/ \E r \in CookieAnswers("register") : LoginRegister(t, r)
        \/ \E r \in CookieAnswers("mbbauth") : LoginMbbAuth(t, r)
        \/ \E r \in CookieAnswers("mbbrefresh") : LoginMbbRefresh(t, r)

\* the token objects of the newest issue
NewestVw == CHOOSE j \in Issue(MaxTok, <<Some(Tok), Some(Tok)>>) : TRUE

\* the answers of the session to the request named kind: a readable one, or
\* the request raises
CmdAnswers(kind) ==
    {Raise} \cup {r \in CmdResponses(kind) \ {Raise, None} : Unreadable(kind, r) = Absent}

\* the life of one session: logins, refreshes, home-region getters of one
\* VIN and status polls, one call at a time, each request answered
\* completely or raising
SessionNext ==
    \E t \in sched :
        \/ LoginCall(t)
        \/ \E r \in Answers("markets") : LoginMarkets(t, r)
        \/ \E r \in Answers("marketcfg") : LoginMarketCfg(t, r)
        \/ \E r \in Answers("openidcfg") : LoginOpenIdCfg(t, r)
        \/ \E r \in Answers("loginpage") : LoginPage(t, r)
        \/ \E r \in Answers("identifier") : LoginIdentifier(t, r)
        \/ \E r \in Answers("password") \cup Answers("fwd1") \cup Answers("fwd2") :
              LoginHop(t, r)
        \/ \E r \in Answers("codeauth") : LoginCodeAuth(t, r)
        \/ \E r \in Answers("idtoken") : LoginIdToken(t, r)
        \/ \E r \in Answers("azstoken") : LoginAzsToken(t, r)
        \/ \E r \in Answers("register") : LoginRegister(t, r)
        \/ \E r \in Answers("mbbauth") : LoginMbbAuth(t, r)
        \/ \E r \in Answers("mbbrefresh") : LoginMbbRefresh(t, r)
        \/ LoginReturn(t)
        \/ RefreshCall(t, MaxElapsed)
        \/ \E r \in {Raise, NewestVw} : RefreshMbbResponse(t, r)
        \/ \E r \in {Raise, NewestVw} : RefreshIdkResponse(t, r)
        \/ \E r \in {Raise, [access_token |-> Has(MaxTok)]} : RefreshAzsResponse(t, r)
        \/ RefreshReturn(t)
        \/ \E g \in {"home", "setter"} : HomeCall(t, "v1", g)
        \/ \E r \in {Raise,
                      [homeRegion |-> Has([baseUri |-> Has([content |->
                          Has(Str(<<"mal-", "/api">>))])])]} : HomeResponse(t, r)
        \/ HomeReturn(t)
        \/ vwToken # NoAttr /\ PollStart(t, REQUEST_SUCCESSFUL, Has(REQUEST_FAILED))
        \/ PollWake(t)
        \/ PollGetRaises(t)
        \/ \E s \in {Has(REQUEST_SUCCESSFUL), Has("queued")} :
              PollResponse(t, s)
        \/ PollReturn(t)

\* the operations of a session that logs in: login_request, whose requests
\* are answered completely or raise, and after it refreshes, home-region
\* getters, status polls, queries and commands, one call at a time
MarketNext ==
    \E t \in sched :
        \/ LoginCall(t)
        \/ \E r \in Answers("markets") : LoginMarkets(t, r)
        \/ \E r \in Answers("marketcfg") : LoginMarketCfg(t, r)
        \/ \E r \in Answers("openidcfg") : LoginOpenIdCfg(t, r)
        \/ \E r \in Answers("loginpage") : LoginPage(t, r)
        \/ \E r \in Answers("identifier") : LoginIdentifier(t, r)
        \/ \E r \in Answers("password") \cup Answers("fwd1") \cup Answers("fwd2") :
              LoginHop(t, r)
        \/ \E r \in Answers("codeauth") : LoginCodeAuth(t, r)
        \/ \E r \in Answers("idtoken") : LoginIdToken(t, r)
        \/ \E r \in Answers("azstoken") : LoginAzsToken(t, r)
        \/ \E r \in Answers("register") : LoginRegister(t, r)
        \/ \E r \in Answers("mbbauth") : LoginMbbAuth(t, r)
        \/ \E r \in Answers("mbbrefresh") : LoginMbbRefresh(t, r)
        \/ LoginReturn(t)
        \/ RefreshCall(t, MaxElapsed)
        \/ RefreshMbbResponse(t, NewestVw)
        \/ RefreshIdkResponse(t, NewestVw)
        \/ \E r \in {Raise, [access_token |-> Has(MaxTok)]} : RefreshAzsResponse(t, r)
        \/ RefreshReturn(t)
        \/ HomeCall(t, "v1", "home")
        \/ HomeResponse(t, [homeRegion |-> Has([baseUri |-> Has([content |->
                                  Has(Str(<<"mal-", "/api">>))])])])
        \/ HomeReturn(t)
        \/ vwToken # NoAttr /\ PollStart(t, SUCCEEDED, Has(FAILED))
        \/ PollWake(t)
        \/ PollGetRaises(t)
        \/ PollResponse(t, Has(pl[t].successCode))
        \/ PollReturn(t)
        \/ \E op \in {"get_charger", "set_vehicle_lock", "set_battery_charger"} :
              CmdCall(t, op, [on |-> TRUE, timer |-> FALSE], "v1")
        \/ CmdHomeDone(t)
        \/ \E r \in CmdAnswers(cm[t].stage) : CmdResponse(t, r)
        \/ CmdPollDone(t)
        \/ CmdReturn(t)

\* a confirmation that stays pending while the session is refreshed by
\* another coroutine
PollRefreshNext ==
    \E t \in sched :
        \/ PollStart(t, REQUEST_SUCCESSFUL, Has(REQUEST_FAILED))
        \/ PollWake(t)
        \/ PollGetRaises(t)
        \/ \E s \in {Has("queued"), Has(REQUEST_SUCCESSFUL)} : PollResponse(t, s)
        \/ PollReturn(t)
        \/ RefreshCall(t, MaxElapsed)
        \/ \E r \in {Raise, NewestVw} : RefreshMbbResponse(t, r)
        \/ \E r \in {Raise, NewestVw} : RefreshIdkResponse(t, r)
        \/ \E r \in {Raise, [access_token |-> Has(MaxTok)]} : RefreshAzsResponse(t, r)
        \/ RefreshReturn(t)

\* a query with the legacy token and a query with the identity token, each
\* called by any coroutine
CmdConcNext ==
    \E t \in sched :
        \/ \E op \in {"get_charger", "get_stored_position"} :
              CmdCall(t, op, [on |-> FALSE, timer |-> FALSE], "v1")
        \/ \E r \in CmdHomeAnswers : HomeResponse(t, r)
        \/ CmdHomeDone(t)
        \/ \E r \in {Raise} \cup AnyJson : CmdResponse(t, r)
        \/ CmdReturn(t)

Next == RefreshNext

\* refresh_token_if_necessary called by one coroutine at a time
Spec == Init /\ [][Next]_vars
\* refresh_token_if_necessary called by two coroutines
SpecConc == InitConc /\ [][Next]_vars
\* check_request_succeeded
SpecPoll == InitPoll /\ [][PollNext]_vars
\* the home-region getters called by one coroutine at a time
SpecHome == Init /\ [][HomeNext]_vars
\* the operations of one session, one call at a time
SpecSession == InitLogin /\ [][SessionNext]_vars
\* one call of login_request
SpecLogin == InitLogin /\ [][LoginNext]_vars
\* the home-region getters called by two coroutines
SpecHomeConc == InitLoggedInConc /\ [][HomeNext]_vars
\* one call of login_request, the answers setting cookies
SpecCookies == InitLogin /\ [][CookieNext]_vars
\* vehicle queries and commands, one call at a time
SpecCmd == InitCmd /\ [][CmdNext]_vars
\* check_request_succeeded and refresh_token_if_necessary in two coroutines
SpecPollRefresh == InitLoggedInConc /\ [][PollRefreshNext]_vars
\* queries called by two coroutines
SpecCmdConc == InitCmdConc /\ [][CmdConcNext]_vars
\* every operation of a session that logs in, one call at a time
SpecMarket == InitLogin /\ [][MarketNext]_vars

(***************************************************************************)
(* Properties of check_request_succeeded (under SpecPoll)                   *)
(***************************************************************************)
\* the poll frames in use
Polling == {t \in Coroutines : pl[t].pc # "idle"}

\* a status that ends the polling with a failure, as the claims state it
IsFailure(status, failedCode) ==
    status = Absent \/ (failedCode # Absent /\ status = failedCode)

\* a status that is present and neither the success nor the failure literal
IsPending(status, successCode, failedCode) ==
    /\ status # Absent
    /\ status # Has(successCode)
    /\ ~(failedCode # Absent /\ status = failedCode)

AllPending(f, n) ==
    \A j \in 1..n : IsPending(f.seen[j], f.successCode, f.failedCode)

\* C1: an invocation sends at most MAX_RESPONSE_ATTEMPTS status GETs and has
\* terminated once the last of them has returned; each GET sent was preceded
\* by exactly one REQUEST_STATUS_SLEEP delay, so the delay of one invocation
\* is REQUEST_STATUS_SLEEP times its GETs and at most 100 seconds.
C1_PollBounded ==
    \A t \in Polling :
        LET f == pl[t]
        IN /\ f.gets <= MAX_RESPONSE_ATTEMPTS
           /\ f.slept = REQUEST_STATUS_SLEEP * f.gets
           /\ f.slept <= 100
           /\ (f.gets = MAX_RESPONSE_ATTEMPTS /\ f.req = Absent) => f.pc = "done"
           /\ f.pc = "await_get" <=> f.req # Absent

\* an invocation that ended after ten GETs and a hundred seconds of delay
C1_Witness ==
    \E t \in Polling :
        /\ pl[t].pc = "done"
        /\ pl[t].gets = MAX_RESPONSE_ATTEMPTS
        /\ pl[t].slept = 100

\* C2: when the status of an attempt is absent or equals the failure literal,
\* the invocation has ended at that attempt by raising the operation-failed
\* error for that status, and no GET or delay follows it.
C2_FailureEndsPolling ==
    \A t \in Polling :
        LET f == pl[t]
        IN \A k \in 1..Len(f.seen) :
              IsFailure(f.seen[k], f.failedCode) =>
                 /\ k = Len(f.seen)
                 /\ f.pc = "done"
                 /\ f.exc = Has(FailedError(f.seen[k]))
                 /\ f.gets = k
                 /\ f.slept = REQUEST_STATUS_SLEEP * k
                 /\ f.req = Absent

\* a failure at the third attempt, by the failure literal
C2_Witness ==
    \E t \in Polling :
        /\ Len(pl[t].seen) = 3
        /\ pl[t].failedCode # Absent
        /\ pl[t].seen[3] = pl[t].failedCode
        /\ pl[t].pc = "done"

\* the same, by an absent status field
C2_WitnessAbsent ==
    \E t \in Polling :
        /\ Len(pl[t].seen) = 2
        /\ pl[t].seen[2] = Absent
        /\ pl[t].pc = "done"

\* C3: when the first k-1 statuses are pending ones and the k-th is the
\* success literal, the invocation has returned normally after exactly k
\* GETs; while every status so far is a pending one and attempts remain, the
\* invocation is still polling (unless a GET raised).
C3_SuccessAfterPending ==
    \A t \in Polling :
        LET f == pl[t]
            k == Len(f.seen)
        IN /\ (k >= 1 /\ f.seen[k] = Has(f.successCode) /\ AllPending(f, k - 1)) =>
                 /\ f.pc = "done"
                 /\ f.exc = Absent
                 /\ f.gets = k
           /\ (k < MAX_RESPONSE_ATTEMPTS /\ AllPending(f, k)) =>
                 \/ f.pc \in {"sleeping", "await_get"}
                 \/ f.exc = Has(TransportError)

\* the sequence queued, queued, success literal: returned after three GETs
C3_Witness ==
    \E t \in Polling :
        /\ pl[t].seen = <<Has("queued"), Has("queued"), Has(pl[t].successCode)>>
        /\ pl[t].pc = "done"
        /\ pl[t].exc = Absent
        /\ pl[t].gets = 3

\* C4: when all MAX_RESPONSE_ATTEMPTS statuses are pending ones, the
\* invocation has ended by raising the timeout error after exactly that many
\* GETs; the timeout error is none of the operation-failed errors, and it is
\* raised in no other case.
C4_TimeoutAfterAllPending ==
    /\ \A s \in Statuses : TimeoutError # FailedError(s)
    /\ \A t \in Polling :
        LET f == pl[t]
        IN /\ (Len(f.seen) = MAX_RESPONSE_ATTEMPTS
                  /\ AllPending(f, MAX_RESPONSE_ATTEMPTS)) =>
                 /\ f.pc = "done"
                 /\ f.exc = Has(TimeoutError)
                 /\ f.gets = MAX_RESPONSE_ATTEMPTS
           /\ f.exc = Has(TimeoutError) =>
                 /\ Len(f.seen) = MAX_RESPONSE_ATTEMPTS
                 /\ AllPending(f, MAX_RESPONSE_ATTEMPTS)

\* ten pending statuses, then the timeout error
C4_Witness ==
    \E t \in Polling :
        /\ Len(pl[t].seen) = MAX_RESPONSE_ATTEMPTS
        /\ \A j \in 1..MAX_RESPONSE_ATTEMPTS : pl[t].seen[j] = Has("queued")
        /\ pl[t].exc = Has(TimeoutError)

(***************************************************************************)
(* Properties of refresh_token_if_necessary (under Spec, one coroutine at   *)
(* a time, unless SpecConc is named)                                        *)
(***************************************************************************)
\* the refresh frames in use
Refreshing == {t \in Coroutines : rf[t].pc # "idle"}

\* the coroutines awaiting the response of a refresh request
InFlight == {t \in Coroutines : rf[t].pc \in {"await_mbb", "await_idk", "await_azs"}}

\* the call of t finds a refresh token and an expiry, and the refresh is due:
\* elapsed + 300 >= expires_in on the mbbOAuth record it started with
HeldAtCall(t) ==
    /\ hist[t].pre.mbb # None
    /\ hist[t].pre.mbb.refresh_token # Absent
    /\ hist[t].pre.mbb.expires_in # Absent

DueAtCall(t) ==
    /\ HeldAtCall(t)
    /\ rf[t].elapsed + REFRESH_MARGIN >= Val(hist[t].pre.mbb.expires_in)

\* an endpoint call of the chain raised or returned an unparsable body
EndpointFailed(t) ==
    /\ rf[t].pc = "done"
    /\ hist[t].failure.cause \in {"raise", "garbage"}

\* C5: a call that is not due (no refresh token or expiry held, or
\* elapsed + 300 < expires_in) has returned False without sending a request
\* and with every token record as it was; a call has sent the mbbOAuth
\* refresh request exactly when it was due, elapsed + 300 = expires_in
\* included.
C5_NotDueIsNoOp ==
    \A t \in Refreshing :
        /\ ~DueAtCall(t) =>
              /\ rf[t].pc = "done"
              /\ rf[t].ret = FALSE
              /\ rf[t].exc = Absent
              /\ hist[t].sent = <<>>
              /\ Session = hist[t].pre
        /\ DueAtCall(t) <=> Len(hist[t].sent) >= 1

\* a refresh token is held and the call is one second short of due
C5_Witness ==
    \E t \in Refreshing :
        /\ HeldAtCall(t)
        /\ rf[t].elapsed + REFRESH_MARGIN + 1 = Val(hist[t].pre.mbb.expires_in)
        /\ rf[t].pc = "done"
        /\ rf[t].ret = FALSE

\* the boundary: elapsed + 300 = expires_in, and the chain has started
C5_WitnessBoundary ==
    \E t \in Refreshing :
        /\ HeldAtCall(t)
        /\ rf[t].elapsed + REFRESH_MARGIN = Val(hist[t].pre.mbb.expires_in)
        /\ rf[t].pc = "await_mbb"

\* C6 as stated: when an endpoint call of a due refresh fails, the call
\* returns False and the legacy, identity and authorization-server tokens
\* are all as they were before the call.
C6_AllTokensKept ==
    \A t \in Refreshing :
        EndpointFailed(t) =>
            /\ rf[t].ret = FALSE
            /\ vwToken = hist[t].pre.vw
            /\ bearer = hist[t].pre.bearer
            /\ audiToken = hist[t].pre.audi

\* C6 as amended: when the endpoint call of step k fails, the call returns
\* False and the tokens of step k and of the later steps are as they were
\* before the call (all three when the first call fails).
C6_FailedAndLaterTokensKept ==
    \A t \in Refreshing :
        EndpointFailed(t) =>
            /\ rf[t].ret = FALSE
            /\ hist[t].failure.step = 1 => vwToken = hist[t].pre.vw
            /\ hist[t].failure.step <= 2 => bearer = hist[t].pre.bearer
            /\ audiToken = hist[t].pre.audi

\* the identity call raised after the legacy token was replaced
C6_Witness ==
    \E t \in Refreshing :
        /\ EndpointFailed(t)
        /\ hist[t].failure = [step |-> 2, cause |-> "raise"]
        /\ vwToken # hist[t].pre.vw
        /\ bearer = hist[t].pre.bearer

\* C7 (under SpecConc): at most one coroutine is inside the refresh chain,
\* and no two pending mbbOAuth refresh requests carry the same refresh token.
C7_OneRefreshInFlight ==
    /\ Cardinality(InFlight) <= 1
    /\ \A t1, t2 \in Coroutines :
          (t1 # t2 /\ rf[t1].pc = "await_mbb" /\ rf[t2].pc = "await_mbb")
             => rf[t1].req # rf[t2].req

\* the grant and the signature the claim gives each step
StepGrant == <<"refresh_token", "refresh_token", "id_token">>
StepSigned == <<FALSE, TRUE, FALSE>>

\* C8: the requests of a call are a prefix of mbbOAuth (refresh-token grant),
\* identity (refresh-token grant, signed), authorization server (id_token
\* grant); the request of a step is sent only once the responses of the
\* steps before it are stored, and none is sent after a step failed.
C8_RefreshOrder ==
    \A t \in Refreshing :
        LET h == hist[t]
            n == Len(h.sent)
        IN /\ n <= Len(RefreshSteps)
           /\ \A j \in 1..n : /\ h.sent[j].kind = RefreshSteps[j]
                               /\ h.sent[j].grant = StepGrant[j]
                               /\ h.sent[j].signed = StepSigned[j]
           /\ n <= Len(h.resps) + 1
           /\ n >= 2 => vwToken = h.resps[1]
           /\ n = 3 => bearer = h.resps[2]
           /\ h.failure.step > 0 => (rf[t].pc = "done" /\ n <= h.failure.step)
           /\ rf[t].req # Absent <=> t \in InFlight
           /\ t \in InFlight => rf[t].req = Has(h.sent[n])

\* a call that went through the three steps
C8_Witness ==
    \E t \in Refreshing :
        /\ Len(hist[t].sent) = 3
        /\ rf[t].pc = "done"
        /\ rf[t].ret = TRUE

\* a call whose first step failed: one request, none after it
C8_WitnessFailStop ==
    \E t \in Refreshing :
        /\ hist[t].failure.step = 1
        /\ Len(hist[t].sent) = 1
        /\ rf[t].pc = "done"

\* C9: when the three endpoints answered with token objects (the identity
\* one carrying an access token), the call has returned True, each of the
\* three tokens is the object its endpoint returned in this call, and the
\* authorization-server request carried the access token of the new identity
\* token; True is returned in no other case.
C9_RefreshSuccess ==
    \A t \in Refreshing :
        LET h == hist[t]
        IN /\ Len(h.resps) = 3 =>
                 /\ rf[t].pc = "done"
                 /\ rf[t].ret = TRUE
                 /\ vwToken = h.resps[1]
                 /\ bearer = h.resps[2]
                 /\ audiToken = h.resps[3]
                 /\ h.sent[3].token = h.resps[2].access_token
           /\ (rf[t].pc = "done" /\ rf[t].ret = TRUE) => Len(h.resps) = 3

\* a successful refresh whose new identity access token differs from the old
C9_Witness ==
    \E t \in Refreshing :
        /\ rf[t].pc = "done"
        /\ rf[t].ret = TRUE
        /\ Len(hist[t].resps) = 3
        /\ hist[t].resps[2].access_token # hist[t].pre.bearer.access_token
        /\ vwToken # hist[t].pre.vw
        /\ audiToken # hist[t].pre.audi

\* C10: no exception leaves refresh_token_if_necessary; a call in which a
\* request, the parsing of a response or the use of a parsed response failed
\* has returned False.
C10_RefreshNeverRaises ==
    \A t \in Coroutines :
        /\ rf[t].exc = Absent
        /\ (t \in Refreshing /\ hist[t].failure.step > 0) =>
              (rf[t].pc = "done" /\ rf[t].ret = FALSE)

\* the authorization-server response was unparsable
C10_Witness ==
    \E t \in Refreshing :
        /\ hist[t].failure = [step |-> 3, cause |-> "garbage"]
        /\ rf[t].pc = "done"
        /\ rf[t].ret = FALSE

\* C11: when step k of the chain fails, the updates of the steps before k
\* are kept (the legacy token and identity token those steps returned, and
\* the refresh token the legacy step stored in the mbbOAuth record), the
\* tokens of step k and of the later steps are as they were before the call,
\* and the call has returned False.
C11_PartialFailurePolicy ==
    \A t \in Refreshing :
        LET h == hist[t]
            k == h.failure.step
        IN k > 0 =>
              /\ rf[t].pc = "done"
              /\ rf[t].ret = FALSE
              /\ k >= 2 => /\ vwToken = h.resps[1]
                           /\ mbboauthToken = StoreRefreshToken(h.pre.mbb, h.resps[1])
              /\ k = 3 => bearer = h.resps[2]
              /\ k = 1 => /\ vwToken = h.pre.vw
                          /\ mbboauthToken = h.pre.mbb
              /\ k <= 2 => bearer = h.pre.bearer
              /\ audiToken = h.pre.audi

\* the legacy step failed on a body that is JSON but not an object, after
\* the body replaced the legacy token
C11_NullBody ==
    \E t \in Refreshing :
        /\ hist[t].failure = [step |-> 1, cause |-> "type"]
        /\ rf[t].ret = FALSE
        /\ vwToken = JsonNull
        /\ vwToken # hist[t].pre.vw

\* the legacy response of a refresh call arrives
MbbResponseStep(t) == rf[t].pc = "await_mbb" /\ rf'[t].pc # "await_mbb"

\* C12: a step changes the stored mbbOAuth record only when a legacy refresh
\* response carrying a refresh_token arrives, and then in its refresh_token
\* field only, which takes the value of the response; a legacy response
\* without a refresh_token, and every other step, leaves the record as it
\* is, so its expires_in and other fields stay at their login-time values.
C12_OnlyRefreshTokenChanges ==
    [][ /\ mbboauthToken' # mbboauthToken =>
             \E t \in sched :
                 /\ MbbResponseStep(t)
                 /\ vwToken' \in VwJson
                 /\ vwToken'.refresh_token # Absent
                 /\ mbboauthToken' =
                      [mbboauthToken EXCEPT !.refresh_token = vwToken'.refresh_token]
        /\ \A t \in sched :
              (MbbResponseStep(t) /\ vwToken' \in VwJson /\ vwToken' # vwToken
                  /\ vwToken'.refresh_token # Absent)
                 => mbboauthToken'.refresh_token = vwToken'.refresh_token
      ]_vars

\* a refresh stored a new refresh token in the record, next to the expires_in
\* and access_token of the login
C12_Witness ==
    \E t \in Refreshing :
        /\ vwToken = NewestVw
        /\ hist[t].resps[1].refresh_token # Absent
        /\ mbboauthToken.refresh_token = hist[t].resps[1].refresh_token
        /\ mbboauthToken.refresh_token # hist[t].pre.mbb.refresh_token
        /\ mbboauthToken.expires_in = hist[t].pre.mbb.expires_in
        /\ mbboauthToken.access_token = hist[t].pre.mbb.access_token

(***************************************************************************)
(* Properties of the home-region getters (under SpecHome, SpecHomeConc)    *)
(***************************************************************************)
\* the coroutines inside _get_home_region or _get_home_region_setter
HomeCallers == {t \in Coroutines : hr[t].pc # "idle"}

\* C13: at most one homeRegion request is ever sent for a VIN, and a call of
\* either getter that starts after the resolution of its VIN has completed
\* returns without sending a request, whatever the answer that completed the
\* resolution was.
C13_ResolvedOnce ==
    /\ \A v \in Vins : hrRequests[v] <= 1
    /\ \A t \in HomeCallers :
          hr[t].resolvedAtCall =>
             /\ hr[t].pc = "done"
             /\ hr[t].sent = 0
             /\ hr[t].req = Absent
             /\ hr[t].ret # Absent

\* the query of a VIN raised, and a later call of the other getter has
\* returned without a request
C13_Witness ==
    \E t \in HomeCallers :
        /\ hr[t].resolvedAtCall
        /\ hr[t].get = "setter"
        /\ hr[t].pc = "done"
        /\ hrResolved[hr[t].vin] = Has(Raise)
        /\ hrRequests[hr[t].vin] = 1

\* the same after a query that reported an override
C13_WitnessOverride ==
    \E t \in HomeCallers :
        /\ hr[t].resolvedAtCall
        /\ hr[t].pc = "done"
        /\ hrResolved[hr[t].vin] # Has(Raise)
        /\ homeRegionSetter[hr[t].vin] # DefaultSetter
        /\ hrRequests[hr[t].vin] = 1

\* C14 (under SpecHomeConc): one resolution request is sent per VIN, and a
\* caller that has obtained the region of a resolved VIN holds the cached
\* value, the one every caller after the resolution obtains.
C14_ConcurrentCallersAgree ==
    /\ \A v \in Vins : hrRequests[v] <= 1
    /\ \A t \in HomeCallers :
          (hr[t].pc = "done" /\ hrResolved[hr[t].vin] # Absent) =>
             hr[t].ret = Has(IF hr[t].get = "home" THEN homeRegion[hr[t].vin]
                             ELSE homeRegionSetter[hr[t].vin])

\* the answers after which the defaults stay, as C15 lists them: the query
\* raises, returns nothing, lacks homeRegion.baseUri.content, or reports the
\* default base URI (and, beyond the list: the content is not a string, or
\* no legacy token exists to send the query with)
KeepsDefaults(res) ==
    \/ res \in {Raise, None, NoToken}
    \/ /\ res \in HomeJson
       /\ \/ res.homeRegion = Absent
          \/ Val(res.homeRegion).baseUri = Absent
          \/ Val(Val(res.homeRegion).baseUri).content = Absent
          \/ Val(Val(res.homeRegion).baseUri).content = Has(DefaultUri)
          \/ Val(Val(res.homeRegion).baseUri).content = Has(NotAString)

\* C15: after a resolution that ended with such an answer the cached pair
\* is the two hardcoded defaults; no exception leaves a getter, and the
\* getter that ran the resolution has returned the default.
C15_FailureGivesDefaults ==
    /\ \A v \in Vins :
          (hrResolved[v] # Absent /\ KeepsDefaults(Val(hrResolved[v]))) =>
             /\ homeRegion[v] = DefaultHome
             /\ homeRegionSetter[v] = DefaultSetter
    /\ \A t \in Coroutines : hr[t].exc = Absent
    /\ \A t \in HomeCallers :
          (hr[t].pc = "done" /\ ~hr[t].resolvedAtCall
              /\ hrResolved[hr[t].vin] # Absent
              /\ KeepsDefaults(Val(hrResolved[hr[t].vin]))) =>
             hr[t].ret = Has(IF hr[t].get = "home" THEN DefaultHome
                             ELSE DefaultSetter)

\* the query reported the default base URI and the getter returned the
\* default home region
C15_Witness ==
    \E t \in HomeCallers :
        /\ hr[t].pc = "done"
        /\ hr[t].sent = 1
        /\ hr[t].get = "home"
        /\ hrResolved[hr[t].vin] # Absent
        /\ HasContent(Val(hrResolved[hr[t].vin]))
        /\ Content(Val(hrResolved[hr[t].vin])) = DefaultUri
        /\ hr[t].ret = Has(DefaultHome)

\* the query raised
C15_WitnessRaise ==
    \E t \in HomeCallers :
        /\ hr[t].pc = "done"
        /\ hr[t].sent = 1
        /\ hrResolved[hr[t].vin] = Has(Raise)
        /\ homeRegion[hr[t].vin] = DefaultHome

\* setter is uri cut before its first "/api" (all of uri when it has none)
CutBeforeFirstApi(setter, uri) ==
    \E n \in 0..Len(uri.str) :
        /\ setter.str = SubSeq(uri.str, 1, n)
        /\ \A i \in 1..n : uri.str[i] # "/api"
        /\ n < Len(uri.str) => uri.str[n + 1] = "/api"

\* home is setter with every "mal-" replaced by "fal-"
MalToFal(home, setter) ==
    /\ Len(home.str) = Len(setter.str)
    /\ \A i \in 1..Len(setter.str) :
          home.str[i] = IF setter.str[i] = "mal-" THEN "fal-" ELSE setter.str[i]

\* C16: after a resolution whose answer carried a base URI other than the
\* default, the cached setter region is the URI cut before its first "/api"
\* and the cached home region is the setter region with "mal-" replaced by
\* "fal-"; at every moment the pair of a VIN is unset, the default pair, or
\* a pair related by this substitution.
C16_OverridePair ==
    \A v \in Vins :
        /\ (/\ hrResolved[v] # Absent
            /\ HasContent(Val(hrResolved[v]))
            /\ Content(Val(hrResolved[v])) \notin {DefaultUri, NotAString}) =>
               /\ CutBeforeFirstApi(homeRegionSetter[v], Content(Val(hrResolved[v])))
               /\ MalToFal(homeRegion[v], homeRegionSetter[v])
        /\ \/ homeRegion[v] = None /\ homeRegionSetter[v] = None
           \/ homeRegion[v] = DefaultHome /\ homeRegionSetter[v] = DefaultSetter
           \/ /\ homeRegion[v] # None
              /\ homeRegionSetter[v] # None
              /\ MalToFal(homeRegion[v], homeRegionSetter[v])

\* an override with "mal-" twice before its "/api"
C16_Witness ==
    \E v \in Vins :
        /\ hrResolved[v] # Absent
        /\ HasContent(Val(hrResolved[v]))
        /\ Content(Val(hrResolved[v])) = Str(<<"mal-", "mal-">>)
        /\ homeRegion[v] = Str(<<"fal-", "fal-">>)

\* an override cut at its "/api"
C16_WitnessCut ==
    \E v \in Vins :
        /\ hrResolved[v] # Absent
        /\ HasContent(Val(hrResolved[v]))
        /\ Content(Val(hrResolved[v])) = Str(<<"mal-", "/api">>)
        /\ homeRegionSetter[v] = Str(<<"mal-">>)
        /\ homeRegion[v] = Str(<<"fal-">>)

(***************************************************************************)
(* Properties of login_request (under SpecLogin)                           *)
(***************************************************************************)
\* the coroutines inside login_request
LoggingIn == {t \in Coroutines : lg[t].pc # "idle"}

\* a page get_post_url cannot take a URL from: no form, no action, or an
\* action that is neither absolute nor root-relative
NoPostUrl(page) ==
    \/ page.form = NoForm
    \/ page.form.action = Absent
    \/ Val(page.form.action).start \notin {"http", "/"}

\* the answer r to request k is one of the failures C18 lists
ListedFailure(k, r) ==
    \/ r = Raise
    \/ k \in 6..8 /\ r.location = Absent
    \/ k = 9 /\ (r.location = Absent \/ Val(r.location).code = Absent)
    \/ k = 4 /\ NoPostUrl(r)
    \/ k = 5 /\ ~r.hmac /\ NoPostUrl(r)
    \/ k \in 10..14 /\ r = Garbage

\* C18: a login whose step k failed has ended with an exception for its
\* caller, having sent the requests of steps 1..k once each and none of a
\* later step; each failure of the list (a request that raises, a redirect
\* without Location, a final Location without code, a page without usable
\* form action, an unparsable token body) is such a failure, and no login
\* ends with an exception otherwise.
C18_FailureAborts ==
    \A t \in LoggingIn :
        LET f == lg[t]
            k == Len(f.rcvd)
        IN /\ f.failed > 0 =>
                 /\ f.pc = "done"
                 /\ f.exc # Absent
                 /\ Len(f.sent) = f.failed
                 /\ k = f.failed
           /\ f.exc # Absent => f.failed > 0
           /\ \A i, j \in 1..Len(f.sent) : i # j => f.sent[i].kind # f.sent[j].kind
           /\ (k > 0 /\ k = Len(f.sent) /\ ListedFailure(k, f.rcvd[k])) =>
                 (f.failed = k /\ f.exc # Absent)

\* the second hop answered without a Location: eight requests were sent
C18_Witness ==
    \E t \in LoggingIn :
        /\ lg[t].failed = 8
        /\ lg[t].rcvd[8] # Raise
        /\ lg[t].rcvd[8].location = Absent
        /\ lg[t].exc = Has("KeyError")
        /\ Len(lg[t].sent) = 8

\* the page answering the identifier has a form action that is neither
\* absolute nor root-relative
C18_WitnessFormAction ==
    \E t \in LoggingIn :
        /\ lg[t].failed = 5
        /\ lg[t].exc = Has("RequestException")
        /\ lg[t].rcvd[5] # Raise

\* the first nine requests of a login, in order
FirstNine ==
    <<"markets", "marketcfg", "openidcfg", "loginpage", "identifier", "password",
      "fwd1", "fwd2", "codeauth">>

\* the requests are sent in the fixed order, one at a time, each after the
\* answer to the one before
OneAfterAnother(f) ==
    /\ \A i \in 1..Len(f.sent) : i <= 9 => f.sent[i].kind = FirstNine[i]
    /\ Len(f.rcvd) <= Len(f.sent)
    /\ Len(f.sent) <= Len(f.rcvd) + 1
    /\ f.pc = "await" <=> Len(f.sent) = Len(f.rcvd) + 1

\* the request carries the value the configuration document gave for key
CarriesConfig(req, key) ==
    \/ req.target.origin = Config(key)
    \/ \E i \in 1..Len(req.target.path) : req.target.path[i] = Config(key)

\* request k carries what the answer to request k - 1 delivered
BuiltFromPrevious(f, k) ==
    LET req == f.sent[k]
        rsp == f.rcvd[k - 1]
    IN CASE k = 2 -> req.target.path[Len(req.target.path)] = Val(rsp.language)
         [] k = 3 -> rsp.keys # {} => \E key \in rsp.keys : CarriesConfig(req, key)
         [] k = 4 -> req.target = IF "authorization_endpoint" \in rsp.keys
                                  THEN ConfigAuthEndpoint ELSE DefaultAuthEndpoint
         [] k = 5 -> /\ req.target.path = Val(rsp.form.action).path
                     /\ "hidden" \in req.data.fields
         [] k = 6 -> IF rsp.hmac THEN "hmac" \in req.data.fields
                     ELSE req.target.path = Val(rsp.form.action).path
         [] k \in 7..9 -> req.target = Val(rsp.location)

\* C19 as stated: the first nine requests of a login are sent in the fixed
\* order, each after the answer to the one before, and each of them is
\* built from that answer.
C19_EachBuiltFromPrevious ==
    \A t \in LoggingIn :
        /\ OneAfterAnother(lg[t])
        /\ \A k \in 2..9 : k <= Len(lg[t].sent) => BuiltFromPrevious(lg[t], k)

\* C19 as amended: the first nine requests of a login are sent in the fixed
\* order, each after the answer to the one before; each is built from that
\* answer except the OpenID discovery request, whose URL is fixed by the
\* country and is the same whatever the market configuration holds.
C19_SequentialOrder ==
    \A t \in LoggingIn :
        /\ OneAfterAnother(lg[t])
        /\ \A k \in (2..9) \ {3} :
              k <= Len(lg[t].sent) => BuiltFromPrevious(lg[t], k)
        /\ Len(lg[t].sent) >= 3 => lg[t].sent[3].target = OpenIdCfgUrl

\* the nine requests were sent after a market configuration with all keys
C19_Witness ==
    \E t \in LoggingIn :
        /\ Len(lg[t].sent) = 9
        /\ lg[t].rcvd[2].keys = MarketKeys
        /\ lg[t].rcvd[5].hmac
        /\ lg[t].pc = "await"

\* C20: the requests after the password POST are three GETs, each to the
\* Location of the answer before it; the password POST and the three GETs
\* do not follow redirects; the tenth request is the identity token POST,
\* and the code it carries is the code of the Location answering the third
\* GET, behind the custom-scheme prefix.
C20_ThreeHops ==
    \A t \in LoggingIn :
        LET f == lg[t]
        IN \A i \in 1..Len(f.sent) :
              /\ i = 6 => f.sent[i].method = "POST" /\ f.sent[i].redirects = "no"
              /\ i \in 7..9 =>
                    /\ f.sent[i].method = "GET"
                    /\ f.sent[i].redirects = "no"
                    /\ f.rcvd[i - 1].location # Absent
                    /\ f.sent[i].target = Val(f.rcvd[i - 1].location)
              /\ i = 10 =>
                    /\ f.sent[i].kind = "idtoken"
                    /\ f.sent[i].method = "POST"
                    /\ Val(f.rcvd[9].location).prefix = CustomScheme =>
                          f.sent[i].data.code = Val(f.rcvd[9].location).code
              /\ i > 9 => f.sent[i].method = "POST"

\* the identity token request carries the code of the third hop's Location
C20_Witness ==
    \E t \in LoggingIn :
        /\ Len(lg[t].sent) >= 10
        /\ Val(lg[t].rcvd[9].location) = [prefix |-> CustomScheme, code |-> Has("code2")]
        /\ lg[t].sent[10].data.code = Has("code2")
        /\ lg[t].sent[9].target = Loc(8)

(***************************************************************************)
(* The home-region cache in the life of a session (under SpecSession)      *)
(***************************************************************************)
\* C17: once the resolution of a VIN has completed, no step of any
\* operation (login, refresh, getter, poll) changes the cached home region
\* or setter region of that VIN.
C17_CacheStable ==
    [][\A v \in Vins :
          hrResolved[v] # Absent =>
             /\ homeRegion'[v] = homeRegion[v]
             /\ homeRegionSetter'[v] = homeRegionSetter[v]]_vars

\* a re-login is under way after a resolution that cached an override
C17_Witness ==
    \E t \in LoggingIn :
        /\ hrResolved["v1"] # Absent
        /\ homeRegionSetter["v1"] = Str(<<"mal-">>)
        /\ homeRegion["v1"] = Str(<<"fal-">>)
        /\ lg[t].pc = "await"
        /\ lg[t].step >= 10

\* a refresh has replaced the tokens after such a resolution
C17_WitnessRefresh ==
    \E t \in Refreshing :
        /\ hrResolved["v1"] # Absent
        /\ homeRegion["v1"] = Str(<<"fal-">>)
        /\ rf[t].pc = "done"
        /\ rf[t].ret = TRUE

\* the password POST p is sent to the URL of the identifier POST q with
\* every "identifier" replaced by "authenticate"
ToAuthenticate(p, q) ==
    /\ p.target.origin = q.target.origin
    /\ Len(p.target.path) = Len(q.target.path)
    /\ \A i \in 1..Len(p.target.path) :
          /\ p.target.path[i] # "identifier"
          /\ p.target.path[i] # q.target.path[i] =>
                (q.target.path[i] = "identifier" /\ p.target.path[i] = "authenticate")

\* the password POST p is sent to the form action of page, taken as it is
\* when absolute, else on the origin of the identifier POST q
ToFormAction(p, q, page) ==
    LET action == Val(page.form.action)
    IN /\ p.target.path = action.path
       /\ p.target.origin = IF action.start = "http" THEN action.origin
                            ELSE q.target.origin

\* C22 as stated: the password POST follows the hmac of the page answering
\* the identifier: with one, it goes to the identifier URL with
\* "identifier" replaced by "authenticate" and its form data is exactly the
\* hidden fields, hmac and password; without one, it goes to the form action
\* of that page and its form data is the hidden fields of that page and
\* password.
C22_HmacBranchHiddenOnly ==
    \A t \in LoggingIn :
        Len(lg[t].sent) >= 6 =>
            LET page == lg[t].rcvd[5]
                q == lg[t].sent[5]
                p == lg[t].sent[6]
            IN IF page.hmac
               THEN /\ ToAuthenticate(p, q)
                    /\ p.data.fields = lg[t].rcvd[4].hidden \cup {"hmac", "password"}
               ELSE /\ ToFormAction(p, q, page)
                    /\ p.data.fields = page.hidden \cup {"password"}

\* C22 as amended: in the hmac branch the form data is the form data of the
\* identifier POST (the hidden fields of the login page and email) with
\* hmac and password added; the hidden fields of the page answering the
\* identifier are not read.
C22_PasswordBranches ==
    \A t \in LoggingIn :
        Len(lg[t].sent) >= 6 =>
            LET page == lg[t].rcvd[5]
                q == lg[t].sent[5]
                p == lg[t].sent[6]
            IN IF page.hmac
               THEN /\ ToAuthenticate(p, q)
                    /\ p.data.fields =
                          lg[t].rcvd[4].hidden \cup {"email", "hmac", "password"}
               ELSE /\ ToFormAction(p, q, page)
                    /\ p.data.fields = page.hidden \cup {"password"}

\* the password went to the authenticate URL after a page with an hmac and
\* with hidden inputs of its own
C22_Witness ==
    \E t \in LoggingIn :
        /\ Len(lg[t].sent) >= 6
        /\ lg[t].rcvd[5].hmac
        /\ lg[t].rcvd[5].hidden = {"hidden2"}
        /\ lg[t].sent[5].target.path = <<"signin", "identifier">>
        /\ lg[t].sent[6].target.path = <<"signin", "authenticate">>

\* the password went to the form action of a page without hmac
C22_WitnessForm ==
    \E t \in LoggingIn :
        /\ Len(lg[t].sent) >= 6
        /\ ~lg[t].rcvd[5].hmac
        /\ lg[t].sent[6].data.fields = {"hidden2", "password"}
        /\ Val(lg[t].rcvd[5].form.action).start = "http"

\* the login of the frame has returned to its caller without exception
ReturnedNormally(f) == f.pc = "done" /\ f.exc = Absent

\* the requests of the token chain are sent in their order, each built from
\* the token it exchanges
ChainOrder(f) ==
    /\ \A i \in 10..14 :
          i <= Len(f.sent) =>
             f.sent[i].kind = <<"idtoken", "azstoken", "register", "mbbauth",
                                "mbbrefresh">>[i - 9]
    /\ Len(f.sent) >= 10 => f.sent[10].data.code # Absent
    /\ Len(f.sent) >= 11 => f.sent[11].data.token = f.rcvd[10].access_token
    /\ Len(f.sent) >= 13 => f.sent[13].data.token = f.rcvd[10].id_token
    /\ Len(f.sent) >= 14 => f.sent[14].data.token = f.rcvd[13].refresh_token

\* each token of the session is the one its request of this login returned
ChainResults(f) ==
    /\ Len(f.rcvd) = 14
    /\ bearer = f.rcvd[10]
    /\ audiToken = f.rcvd[11]
    /\ xclientId = Val(f.rcvd[12].client_id)
    /\ mbboauthToken = f.rcvd[13]
    /\ vwToken = f.rcvd[14]

\* C23: the token chain of a login runs in the order identity token,
\* authorization-server token (with the new identity access token), client
\* registration, mbbOAuth token (with the identity id_token), refresh of
\* that mbbOAuth token; a login that returned normally left the session
\* holding the four tokens and the client identifier, the legacy token
\* being the answer to the refresh.
C23_TokenChain ==
    \A t \in LoggingIn :
        /\ ChainOrder(lg[t])
        /\ ReturnedNormally(lg[t]) =>
              /\ ChainResults(lg[t])
              /\ {bearer, audiToken, mbboauthToken, vwToken} \cap {None, NoAttr} = {}
              /\ xclientId # "None"

\* the order of the chain, and the results of a login that returned
\* normally as its endpoints gave them, a null body included
C23_ChainAsAnswered ==
    \A t \in LoggingIn :
        /\ ChainOrder(lg[t])
        /\ ReturnedNormally(lg[t]) => ChainResults(lg[t])

\* C24: a login whose markets document does not list the country has
\* failed with the error "Country not found" after that one request: no
\* other request was sent, and the session configuration is as before.
C24_UnknownCountryAborts ==
    \A t \in LoggingIn :
        LET f == lg[t]
        IN (Len(f.rcvd) >= 1 /\ f.rcvd[1] # Raise /\ ~f.rcvd[1].listed) =>
              /\ f.pc = "done"
              /\ f.exc = Has("Country not found")
              /\ Len(f.sent) = 1
              /\ f.sent[1].kind = "markets"
              /\ f.sent[1].method = "GET"
              /\ market \in {FreshMarket, DefaultMarket}

\* the markets document of a login did not list the country
C24_Witness ==
    \E t \in LoggingIn :
        /\ Len(lg[t].rcvd) = 1
        /\ lg[t].rcvd[1] # Raise
        /\ ~lg[t].rcvd[1].listed
        /\ lg[t].failed = 1

\* the value resolved for a dynamic field: that of the document when it
\* holds the key, else the fallback literal
Resolved(doc, key) == IF key \in doc.keys THEN Config(key) ELSE "default"

\* the values resolved from the market configuration doc; the
\* authorization-server base URL is announced by one key and read from
\* another, and the value of either is accepted here
MarketResolved(doc) ==
    /\ market.client_id = Resolved(doc, "idkClientIDAndroidLive")
    /\ market.mbbBase = Resolved(doc, "mbbOAuthBaseURLLive")
    /\ market.azsBase \in
          {Resolved(doc, "authorizationServerBaseURLLive")} \cup
          (IF "authorizationServerBaseURLLive" \in doc.keys
           THEN {Config("myAudiAuthorizationServerProxyServiceURLProduction")}
           ELSE {})

\* the values resolved from the discovery document doc
OpenIdResolved(f, doc) ==
    /\ market.tokenEndpoint = Resolved(doc, "token_endpoint")
    /\ f.authEndpoint = IF "authorization_endpoint" \in doc.keys
                        THEN ConfigAuthEndpoint ELSE DefaultAuthEndpoint

\* C25: whatever dynamic fields the market configuration and the discovery
\* document hold, the login does not fail on them, and each of the five
\* values is its dynamic field when the document holds it and the fallback
\* literal when not.
C25_FallbackResolution ==
    \A t \in LoggingIn :
        LET f == lg[t]
        IN /\ (Len(f.rcvd) >= 2 /\ f.rcvd[2] # Raise) =>
                 (f.failed # 2 /\ MarketResolved(f.rcvd[2]))
           /\ (Len(f.rcvd) >= 3 /\ f.rcvd[3] # Raise) =>
                 (f.failed # 3 /\ OpenIdResolved(f, f.rcvd[3]))

\* the same for every document but a market configuration that holds
\* authorizationServerBaseURLLive without
\* myAudiAuthorizationServerProxyServiceURLProduction
C25_ResolutionWithProxyKey ==
    \A t \in LoggingIn :
        LET f == lg[t]
            covered == \/ "authorizationServerBaseURLLive" \notin f.rcvd[2].keys
                       \/ "myAudiAuthorizationServerProxyServiceURLProduction"
                             \in f.rcvd[2].keys
        IN /\ (Len(f.rcvd) >= 2 /\ f.rcvd[2] # Raise /\ covered) =>
                 (f.failed # 2 /\ MarketResolved(f.rcvd[2]))
           /\ (Len(f.rcvd) >= 3 /\ f.rcvd[3] # Raise) =>
                 (f.failed # 3 /\ OpenIdResolved(f, f.rcvd[3]))

(***************************************************************************)
(* The cookies of a login (under SpecCookies)                              *)
(***************************************************************************)
\* the cookies set by the answers to requests 1..n of the frame
Accumulated(f, n) ==
    UNION {f.rcvd[j].cookies : j \in {i \in 1..n : "cookies" \in DOMAIN f.rcvd[i]}}

\* C21: each of the three GETs that follow the password POST carries every
\* cookie set by an answer received earlier in the same login.
C21_HopsCarryAccumulatedCookies ==
    \A t \in LoggingIn :
        \A i \in 7..9 :
            i <= Len(lg[t].sent) =>
                Accumulated(lg[t], i - 1) \subseteq lg[t].sent[i].cookies

\* what the three GETs carry: the first two the cookies of the login page
\* alone, the third those of the answer to the second alone
C21_HopsCarryOneResponse ==
    \A t \in LoggingIn :
        \A i \in 7..9 :
            i <= Len(lg[t].sent) =>
                lg[t].sent[i].cookies = lg[t].rcvd[IF i = 9 THEN 8 ELSE 4].cookies

(***************************************************************************)
(* Properties of the vehicle commands (under SpecCmd)                      *)
(***************************************************************************)
\* the coroutines inside a query or command
Commanding == {t \in Coroutines : cm[t].pc # "idle"}

\* the status GETs sent for the command of the frame
PollsOf(t) == cm[t].polls + pl[t].gets

\* C27: set_battery_charger with start = false and set_climatisation with
\* start = true have ended with NotImplementedError as soon as called: no
\* request was sent, no getter or confirmation entered, and the tokens, the
\* configuration, the caches and the token of the transport are as before
\* the call, whatever the API level and the country.
C27_DeprecatedFailFast ==
    \A t \in Commanding :
        LET f == cm[t]
        IN (\/ f.op = "set_battery_charger" /\ ~f.arg.on
            \/ f.op = "set_climatisation" /\ f.arg.on) =>
              /\ f.pc = "done"
              /\ f.exc = Has("NotImplementedError")
              /\ f.sent = <<>>
              /\ PollsOf(t) = 0
              /\ hr[t].pc = "idle" /\ pl[t].pc = "idle"
              /\ Snapshot = Val(f.pre)

\* the legacy start of the climatisation was refused on API level 1 in
\* the US, in a session that holds tokens
C27_Witness ==
    \E t \in Commanding :
        /\ cm[t].op = "set_climatisation"
        /\ cm[t].arg.on
        /\ cm[t].exc = Has("NotImplementedError")
        /\ apiLevel = 1
        /\ country = "US"
        /\ bearer # None

\* the stop of the charger was refused
C27_WitnessCharger ==
    \E t \in Commanding :
        /\ cm[t].op = "set_battery_charger"
        /\ ~cm[t].arg.on
        /\ cm[t].exc = Has("NotImplementedError")
        /\ apiLevel = 0
        /\ country = "FR"

\* the requests of the frame named kind
SentOf(f, kind) == {i \in 1..Len(f.sent) : f.sent[i].kind = kind}

\* without a PIN, set_vehicle_lock sends nothing but the challenge request
\* and never returns normally
NothingPastChallenge(t) ==
    /\ \A i \in 1..Len(cm[t].sent) : cm[t].sent[i].kind = "challenge"
    /\ Len(cm[t].sent) <= 1
    /\ PollsOf(t) = 0
    /\ pl[t].pc = "idle"
    /\ cm[t].pc = "done" => cm[t].exc # Absent

\* C28 as stated: without a PIN, set_vehicle_lock ends with the error "sPin
\* is required", and neither the completion request, nor the lock or unlock
\* command, nor a status GET is sent.
C28_NoPinConfigurationError ==
    \A t \in Commanding :
        (cm[t].op = "set_vehicle_lock" /\ spin = None) =>
            /\ NothingPastChallenge(t)
            /\ cm[t].pc = "done" => cm[t].exc = Has("sPin is required")

\* C28 as amended: the error is "sPin is required" once the challenge
\* request was answered with a security token and a challenge; a call that
\* fails before (no usable legacy token, the home-region or the challenge
\* request failing, an answer without challenge) ends with that failure.
C28_NoPinStopsAfterChallenge ==
    \A t \in Commanding :
        (cm[t].op = "set_vehicle_lock" /\ spin = None) =>
            /\ NothingPastChallenge(t)
            /\ (/\ Len(cm[t].rcvd) = 1
                /\ cm[t].rcvd[1] \in ChallengeJson
                /\ cm[t].rcvd[1].securityToken # Absent
                /\ cm[t].rcvd[1].challenge # Absent) =>
                  (cm[t].pc = "done" /\ cm[t].exc = Has("sPin is required"))
            /\ cm[t].exc = Has("sPin is required") =>
                  (Len(cm[t].rcvd) = 1 /\ cm[t].rcvd[1] \in ChallengeJson)

\* the challenge was answered and no PIN is configured
C28_Witness ==
    \E t \in Commanding :
        /\ cm[t].op = "set_vehicle_lock"
        /\ spin = None
        /\ cm[t].exc = Has("sPin is required")
        /\ Len(cm[t].sent) = 1
        /\ cm[t].rcvd[1] \in ChallengeJson

\* the requests that carry a confirmed command
CommandKinds == {"lock", "climastop", "climastart", "window"}

\* the command requests the frame has sent
CommandsSent(f) == {i \in 1..Len(f.sent) : f.sent[i].kind \in CommandKinds}

\* the frame has entered check_request_succeeded
Confirming(t) ==
    \/ cm[t].pc = "poll"
    \/ cm[t].check # Absent
    \/ PollsOf(t) > 0
    \/ pl[t].pc # "idle"

\* the command request of the frame was answered by its last answer
CommandAnswered(f) ==
    /\ f.sent # <<>>
    /\ Len(f.rcvd) = Len(f.sent)
    /\ f.sent[Len(f.sent)].kind \in CommandKinds

\* the command request is sent at most once, and exactly once before the
\* confirmation, which is entered only on an answer that carries the
\* identifier and asks for the status of that identifier; a command request
\* that raises, or is answered without identifier, ends the call with an
\* exception and without a status GET
OnceThenConfirmed(t) ==
    LET f == cm[t]
        last == f.rcvd[Len(f.rcvd)]
    IN /\ Cardinality(CommandsSent(f)) <= 1
       /\ Confirming(t) =>
             /\ Cardinality(CommandsSent(f)) = 1
             /\ CommandAnswered(f)
             /\ last \in AcceptedJson
             /\ last.id # Absent
             /\ f.check # Absent
             /\ Val(f.check).url[3] = Val(last.id)
       /\ (CommandAnswered(f) /\ (last \in {Raise, None} \/ last.id = Absent)) =>
             /\ f.pc = "done"
             /\ f.exc # Absent
             /\ ~Confirming(t)

\* C30 as stated: the command request of lock/unlock, legacy climate stop
\* and window heating is sent exactly once, the confirmation starts only
\* after an answer with the identifier, no status GET follows a failed
\* command request or an answer without identifier, and the confirmations
\* differ only in URL, label and path: all are started with the same pair
\* of status literals.
C30_PollingDiffersInUrlLabelPath ==
    /\ \A t \in Commanding : OnceThenConfirmed(t)
    /\ Cardinality(polled) <= 1

\* C30 as amended: the confirmations differ in the pair of status literals
\* too, REQUEST_SUCCESSFUL and REQUEST_FAILED for lock/unlock, SUCCEEDED and
\* FAILED for climate stop and window heating; the attempts run with the
\* literals of the command.
C30_PollingDiffersInLiteralsToo ==
    \A t \in Commanding :
        /\ OnceThenConfirmed(t)
        /\ cm[t].check # Absent =>
              LET c == Val(cm[t].check)
                  lock == cm[t].op = "set_vehicle_lock"
              IN /\ cm[t].op \in {"set_vehicle_lock", "set_climatisation",
                                   "start_climate_control", "set_window_heating"}
                 /\ c.successCode = IF lock THEN REQUEST_SUCCESSFUL ELSE SUCCEEDED
                 /\ c.failedCode = IF lock THEN Has(REQUEST_FAILED) ELSE Has(FAILED)
                 /\ c.path = IF lock THEN "requestStatusResponse.status"
                             ELSE "action.actionState"
                 /\ cm[t].pc = "poll" =>
                       /\ pl[t].successCode = c.successCode
                       /\ pl[t].failedCode = c.failedCode

\* a window-heating command was accepted and its status asked for after a
\* lock was confirmed with the other pair of literals
C30_Witness ==
    \E t \in Commanding :
        /\ cm[t].op = "set_window_heating"
        /\ cm[t].pc = "poll"
        /\ pl[t].gets >= 1
        /\ Cardinality(polled) = 2

\* a lock command was answered without requestId
C30_WitnessNoIdentifier ==
    \E t \in Commanding :
        /\ cm[t].op = "set_vehicle_lock"
        /\ CommandAnswered(cm[t])
        /\ cm[t].rcvd[Len(cm[t].rcvd)] \in AcceptedJson
        /\ cm[t].exc = Has("KeyError")

(***************************************************************************)
(* Properties of the session configuration (under SpecMarket)              *)
(***************************************************************************)
\* the step is one of login_request and of nothing else
LoginStep ==
    /\ lg' # lg
    /\ UNCHANGED <<rf, hr, pl, cm>>

\* C26: the language, the client identifier, the token endpoint, the
\* authorization-server base URL and the OAuth base URL of the session are
\* changed by steps of login_request only: every step of a refresh, of a
\* home-region getter, of a confirmation, of a query or of a command leaves
\* them as they are.
C26_MarketChangedByLoginOnly == [][market' # market => LoginStep]_vars

\* a lock command ran to its confirmation, and a refresh stored new tokens,
\* in a session whose configuration a login had resolved from the documents
C26_Witness ==
    \E t \in Coroutines :
        /\ cm[t].op = "set_vehicle_lock"
        /\ cm[t].pc = "done"
        /\ cm[t].exc = Absent
        /\ cm[t].polls >= 1
        /\ Val(cm[t].pre).market = market
        /\ market \notin {FreshMarket, DefaultMarket}
        /\ vwToken = NewestVw

(***************************************************************************)
(* Properties of a confirmation during a refresh (under SpecPollRefresh)   *)
(***************************************************************************)
\* the step of coroutine t that ends a sleep and sends the status GET
Attempt(t) == pl[t].pc = "sleeping" /\ pl'[t].pc = "await_get"

\* C29: every attempt of check_request_succeeded gives the transport the
\* legacy token the session holds at that step and sends its GET with it,
\* whatever token the earlier attempts were sent with.
C29_AttemptUsesCurrentToken ==
    [][\A t \in Coroutines :
          Attempt(t) =>
              /\ apiToken' = vwToken
              /\ pl'[t].req = Has([kind |-> "status", token |-> vwToken])]_vars

\* a refresh replaced the legacy token between the first and the second
\* attempt: the second GET was sent with the new one
C29_Witness ==
    \E t \in Coroutines :
        /\ pl[t].pc = "await_get"
        /\ Len(pl[t].used) = 2
        /\ pl[t].used[1] # pl[t].used[2]
        /\ pl[t].used[2] = vwToken
        /\ pl[t].req = Has([kind |-> "status", token |-> vwToken])

(***************************************************************************)
(* Properties of the climate commands and the API level (under SpecCmd)    *)
(***************************************************************************)
\* the coroutines inside start_climate_control or set_climatisation(stop)
Climate ==
    {t \in Commanding :
        \/ cm[t].op = "start_climate_control"
        \/ cm[t].op = "set_climatisation" /\ ~cm[t].arg.on}

\* the identity token can be put into an Authorization header
BearerUsable == bearer # None /\ bearer.access_token # Absent

\* level 0: the only request of the call is the legacy command, sent with
\* the legacy token to the fixed host (US) or to the home region, and an
\* answer with the identifier is followed by the confirmation
LegacyConfirmed(t) ==
    LET f == cm[t]
    IN /\ \A i \in 1..Len(f.sent) :
             /\ f.sent[i].kind \in {"climastop", "climastart"}
             /\ f.sent[i].base # BffBase
             /\ f.sent[i].token = vwToken.access_token
       /\ Len(f.sent) <= 1
       /\ country = "US" => (f.pc # "home" /\ hr[t].pc = "idle")
       /\ (CommandAnswered(f) /\ f.rcvd[1] \in AcceptedJson /\ f.rcvd[1].id # Absent) =>
             /\ f.check # Absent
             /\ f.pc = "poll" \/ (f.pc = "done" /\ f.polls >= 1)
       /\ (f.pc = "done" /\ f.exc = Absent) => (Len(f.sent) = 1 /\ f.polls >= 1)

\* level 1: one request, to the newer endpoint with the identity token,
\* sent by the call itself when the token is usable; no getter, no sleep,
\* no status GET; the call ends with the answer
NewerUnconfirmed(t) ==
    LET f == cm[t]
    IN /\ \A i \in 1..Len(f.sent) :
             /\ f.sent[i].kind \in {"climastop1", "climastart1"}
             /\ f.sent[i].base = BffBase
             /\ f.sent[i].token = bearer.access_token
       /\ Len(f.sent) <= 1
       /\ BearerUsable => Len(f.sent) = 1
       /\ ~Confirming(t)
       /\ pl[t].slept = 0
       /\ f.pc # "home" /\ hr[t].pc = "idle"
       /\ Len(f.rcvd) = 1 => f.pc = "done"

\* C31: with API level 0 start_climate_control and set_climatisation(stop)
\* send their command to the legacy endpoint and enter the confirmation
\* once it is accepted; with API level 1 they send exactly one request, to
\* the newer endpoint, and neither sleep nor ask for a status.
C31_ApiLevelSelectsFamily ==
    \A t \in Climate :
        /\ apiLevel = 0 => LegacyConfirmed(t)
        /\ apiLevel = 1 => NewerUnconfirmed(t)

\* on level 1 start_climate_control has returned after its one request
C31_Witness ==
    \E t \in Climate :
        /\ apiLevel = 1
        /\ cm[t].op = "start_climate_control"
        /\ cm[t].pc = "done"
        /\ cm[t].exc = Absent
        /\ Len(cm[t].sent) = 1
        /\ cm[t].sent[1].kind = "climastart1"

\* on level 0 start_climate_control was confirmed with two status GETs
C31_WitnessLegacy ==
    \E t \in Climate :
        /\ apiLevel = 0
        /\ cm[t].op = "start_climate_control"
        /\ cm[t].pc = "done"
        /\ cm[t].exc = Absent
        /\ cm[t].polls = 2

\* C37: a call of start_climate_control or set_climatisation(stop) that has
\* returned normally has sent its command request, whatever the API level.
C37_SendsOrRaises ==
    \A t \in Climate :
        (cm[t].pc = "done" /\ cm[t].exc = Absent) => cm[t].sent # <<>>

\* on levels 0 and 1 a call that returned normally has sent its command
C37_SendsOrRaisesOnKnownLevels ==
    \A t \in Climate :
        (apiLevel \in {0, 1} /\ cm[t].pc = "done" /\ cm[t].exc = Absent) =>
            cm[t].sent # <<>>

(***************************************************************************)
(* Properties of a service that never logged in (under SpecCmd, Spec)      *)
(***************************************************************************)
\* the session as __init__ leaves it: no login has stored a token
NeverLoggedIn ==
    /\ mbboauthToken = None
    /\ vwToken = NoAttr
    /\ bearer = None
    /\ audiToken = NoAttr

\* C36 (queries and commands): on a service that never logged in, a query
\* or command sends no request, resolves no home region, and ends with an
\* exception.
C36_NothingSentBeforeLogin ==
    NeverLoggedIn =>
        \A t \in Commanding :
            /\ cm[t].sent = <<>>
            /\ cm[t].pc = "done"
            /\ cm[t].exc # Absent
            /\ hr[t].pc = "idle"
            /\ \A v \in Vins : hrRequests[v] = 0

\* on such a service only the queries that select the identity token send a
\* request (with no token), and only the climate commands of an unknown API
\* level return normally; every other call ends with an exception and
\* without a request
C36_OnlyIdentityQueriesSend ==
    NeverLoggedIn =>
        \A t \in Commanding :
            /\ cm[t].sent # <<>> =>
                  /\ cm[t].op = "get_stored_position"
                  /\ cm[t].sent[1].token = Absent
            /\ hr[t].pc = "idle"
            /\ \A v \in Vins : hrRequests[v] = 0
            /\ cm[t].op # "get_stored_position" => cm[t].pc = "done"
            /\ (cm[t].pc = "done" /\ cm[t].exc = Absent /\ cm[t].sent = <<>>) =>
                  (t \in Climate /\ apiLevel \notin {0, 1})

\* C36 (refresh): on a service that holds no mbbOAuth record,
\* refresh_token_if_necessary has returned False at once, without a request
C36_RefreshReturnsFalse ==
    mbboauthToken = None =>
        \A t \in Coroutines :
            /\ rf[t].pc \in {"idle", "done"}
            /\ rf[t].pc = "done" => (~rf[t].ret /\ rf[t].exc = Absent)
            /\ rf[t].req = Absent
            /\ hist[t].sent = <<>>

(***************************************************************************)
(* Properties of concurrent queries (under SpecCmdConc)                    *)
(***************************************************************************)
\* the token a query selects with use_token before its request
SelectedBy(kind) ==
    IF kind = "get_stored_position" THEN Access(bearer) ELSE Access(vwToken)

\* C32: under any interleaving of queries of one session, a request to the
\* legacy backend (get_charger, the homeRegion query) is sent with the
\* legacy token and a request to the identity backend (get_stored_position)
\* with the identity token, whatever another coroutine selected on the
\* transport in between.
C32_RequestSentWithOwnToken ==
    \A t \in Coroutines :
        /\ \A i \in 1..Len(cm[t].sent) :
              cm[t].sent[i].token = SelectedBy(cm[t].sent[i].kind)
        /\ hr[t].req # Absent => Val(hr[t].req).token = vwToken

\* the requests that follow their use_token with no await in between carry
\* the selected token: those of get_stored_position, and the homeRegion
\* query
C32_ImmediateRequestsUseOwnToken ==
    \A t \in Coroutines :
        /\ \A i \in 1..Len(cm[t].sent) :
              cm[t].sent[i].kind = "get_stored_position" =>
                  cm[t].sent[i].token = Access(bearer)
        /\ hr[t].req # Absent => Val(hr[t].req).token = vwToken

(***************************************************************************)
(* Properties of the session across logins (under SpecSession)             *)
(***************************************************************************)
\* no call of login_request is in progress
NoLoginRunning == \A t \in Coroutines : lg[t].pc \in {"idle", "done"}

\* C33: between the logins of a session, successful or failed at any
\* request, a session that holds a legacy token holds the registered client
\* identifier too: a login that fails leaves the client identifier of the
\* session whose tokens are still held.
C33_LegacyTokenWithClientId ==
    (NoLoginRunning /\ vwToken \notin {NoAttr, None}) => xclientId # "None"

\* a login that returned normally leaves a legacy token and the client
\* identifier registered by it
C33_AfterCompleteLogin ==
    \A t \in Coroutines :
        (lg[t].pc = "done" /\ lg[t].exc = Absent) =>
            (vwToken # NoAttr /\ xclientId # "None")

(***************************************************************************)
(* Properties of the identity refresh token (under Spec)                   *)
(***************************************************************************)
\* the refreshes that returned True
Refreshed == {t \in Coroutines : rf[t].pc = "done" /\ rf[t].ret}

\* C34: after a refresh that returned True on a session that held an
\* identity refresh token, the session holds an identity refresh token, the
\* one of the identity response, which replaced the record as a whole.
C34_IdentityRefreshTokenHeld ==
    \A t \in Refreshed :
        hist[t].pre.bearer.refresh_token # Absent =>
            /\ bearer = hist[t].resps[2]
            /\ bearer.refresh_token # Absent

\* the identity record is the identity response as a whole, with or without
\* refresh token, while the refresh token of the mbbOAuth record is the one
\* of the legacy response or, when it has none, the one held before
C34_ReplacedNotCarriedOver ==
    \A t \in Refreshed :
        /\ bearer = hist[t].resps[2]
        /\ mbboauthToken.refresh_token =
              IF hist[t].resps[1].refresh_token # Absent
              THEN hist[t].resps[1].refresh_token
              ELSE hist[t].pre.mbb.refresh_token

(***************************************************************************)
(* Properties of the random values of a login (under SpecSession)          *)
(***************************************************************************)
\* the step in which login_request draws its verifier, state and nonce
Generating(t) == lg[t].pkce = Absent /\ lg'[t].pkce # Absent

\* the token request of the frame sends the verifier whose challenge, state
\* and nonce the authorization request of the same call has sent
VerifierOfSameAttempt(f) ==
    \A i \in 1..Len(f.sent) :
        f.sent[i].kind = "idtoken" =>
            /\ f.sent[i].data.verifier = Has(Val(f.pkce).verifier)
            /\ \E j \in 1..(i - 1) :
                  /\ f.sent[j].kind = "loginpage"
                  /\ f.sent[j].data.challenge =
                        Has(Challenge(Val(f.sent[i].data.verifier)))
                  /\ f.sent[j].data.state = Has(Val(f.pkce).state)
                  /\ f.sent[j].data.nonce = Has(Val(f.pkce).nonce)

\* once the call has returned or raised and its frame is gone, nothing of
\* it is left: no verifier, state or nonce, no cookies, no form payload
NothingKept(t) == lg[t].pc = "idle" => lg[t] = IdleLogin

\* C35: each call of login_request draws a verifier, a state and a nonce
\* that no earlier call has drawn; its token request sends the verifier whose
\* challenge its authorization request sent; and after the call nothing of
\* them, of the cookies or of the form data is kept.
C35_FreshPkcePerAttempt ==
    /\ [](\A t \in Coroutines : VerifierOfSameAttempt(lg[t]) /\ NothingKept(t))
    /\ [][\A t \in Coroutines :
             Generating(t) =>
                 \A d \in issued :
                     /\ d.verifier # Val(lg'[t].pkce).verifier
                     /\ d.state # Val(lg'[t].pkce).state
                     /\ d.nonce # Val(lg'[t].pkce).nonce]_vars

\* the second login of a session has sent its token request and returned
C35_Witness ==
    \E t \in Coroutines :
        /\ Cardinality(issued) = 2
        /\ lg[t].pc = "done"
        /\ lg[t].exc = Absent
        /\ \E i \in 1..Len(lg[t].sent) :
              /\ lg[t].sent[i].kind = "idtoken"
              /\ lg[t].sent[i].data.verifier = Has(Draw(2).verifier)

=============================================================================
